---- MODULE Spec2Model ----
(***************************************************************************)
(* A model of the rustastic-smtp server core: the RFC 5321 grammar         *)
(* scanners (src/utils.rs), the mailbox parser (src/common/mailbox.rs)     *)
(* and the command dispatch loop with its handlers (src/server/mod.rs).    *)
(*                                                                         *)
(* Strings are sequences of one-character strings; Ord gives a character   *)
(* its ASCII code, so that the character classes are the code's ranges.    *)
(* Rust indexes from 0, TLA+ from 1: s.char_at(i) is s[i + 1].             *)
(***************************************************************************)
EXTENDS Integers, Sequences, FiniteSets, TLC

(***************************************************************************)
(* Characters.                                                             *)
(***************************************************************************)

\* The printable ASCII characters, in code order: ASCII[i] has code 31 + i.
\* The grave accent (code 96) is written "GRAVE": SANY does not lex a string
\* literal that starts with that character.
ASCII ==
    << " ", "!", "\"", "#", "$", "%", "&", "'", "(", ")", "*", "+", ",", "-", ".", "/",
       "0", "1", "2", "3", "4", "5", "6", "7", "8", "9", ":", ";", "<", "=", ">", "?",
       "@", "A", "B", "C", "D", "E", "F", "G", "H", "I", "J", "K", "L", "M", "N", "O",
       "P", "Q", "R", "S", "T", "U", "V", "W", "X", "Y", "Z", "[", "\\", "]", "^", "_",
       "GRAVE", "a", "b", "c", "d", "e", "f", "g", "h", "i", "j", "k", "l", "m", "n", "o",
       "p", "q", "r", "s", "t", "u", "v", "w", "x", "y", "z", "{", "|", "}", "~" >>

\* The code of each character the model uses: printable ASCII and TAB.
CharCode ==
    [c \in {ASCII[i] : i \in DOMAIN ASCII} \cup {"\t"} |->
        IF c = "\t" THEN 9 ELSE 31 + (CHOOSE i \in DOMAIN ASCII : ASCII[i] = c)]

\* c as int
Ord(c) == CharCode[c]

\* The character of a printable code.
Chr(n) == ASCII[n - 31]

\* std::ascii to_ascii_upper / to_ascii_lower on one character.
to_ascii_upper(c) == IF Ord(c) \in 97..122 THEN Chr(Ord(c) - 32) ELSE c

to_ascii_lower(c) == IF Ord(c) \in 65..90 THEN Chr(Ord(c) + 32) ELSE c

\* into_ascii_upper / into_ascii_lowercase on a string.
into_ascii_upper(s) == [i \in DOMAIN s |-> to_ascii_upper(s[i])]

into_ascii_lowercase(s) == [i \in DOMAIN s |-> to_ascii_lower(s[i])]

\* Bind(v, F) is F(v), with v evaluated once however often F uses it: a local
\* variable of the code. (A LET definition is an abbreviation, which TLC may
\* evaluate anew at each use.)
Bind(v, F(_)) == CHOOSE r \in {F(x) : x \in {v}} : TRUE

\* s.slice_from(n): the string without its first n characters.
slice_from(s, n) == SubSeq(s, n + 1, Len(s))

\* s.slice_to(n): the first n characters.
slice_to(s, n) == SubSeq(s, 1, n)

\* s.slice(a, b): the characters at [a, b).
slice(s, a, b) == SubSeq(s, a + 1, b)

\* s.starts_with(p)
starts_with(s, p) == Len(p) <= Len(s) /\ SubSeq(s, 1, Len(p)) = p

(***************************************************************************)
(* The grammar scanners of src/utils.rs.                                   *)
(***************************************************************************)

is_atext(c) ==
    \/ c \in {"!", "#", "$", "%", "&", "'", "*", "+", "-", "/", "=", "?",
              "^", "_", "GRAVE", "{", "|", "}", "~"}
    \/ Ord(c) \in 65..90
    \/ Ord(c) \in 97..122
    \/ Ord(c) \in 48..57

is_alnum(c) == Ord(c) \in 65..90 \/ Ord(c) \in 97..122 \/ Ord(c) \in 48..57

is_qtext_smtp(c) == Ord(c) \in 32..33 \/ Ord(c) \in 35..91 \/ Ord(c) \in 93..126

is_quoted_pair_smtp(c1, c2) == Ord(c1) = 92 /\ (Ord(c2) >= 32 /\ Ord(c2) <= 126)

\* The characters of the model, and those of each class.
Chars == DOMAIN CharCode

atext == {c \in Chars : is_atext(c)}

alnum == {c \in Chars : is_alnum(c)}

qtext_smtp == {c \in Chars : is_qtext_smtp(c)}

\* Where a loop of the form `while i < s.len() && P(s.char_at(i)) { i += 1 }`
\* started at offset i ends, class being the characters that are P: the first
\* offset from i on that is the end of s or holds a character outside class.
\* (The loops over single characters are written with this operator so that
\* a scan costs no recursion depth.)
run_end(class, s, i) ==
    Bind({j \in i..(Len(s) - 1) : s[j + 1] \notin class},
         LAMBDA stops : IF stops = {} THEN Len(s)
                        ELSE CHOOSE j \in stops : \A k \in stops : j <= k)

\* The inner loop of get_subdomain_len: skip a run of dashes from offset i.
skip_dashes(s, i) == run_end({"-"}, s, i)

\* The outer loop of get_subdomain_len, from offset i with confirmed_min cm.
\* A run of alphanumeric characters is taken in one step: each of its
\* iterations sets confirmed_min to the new i.
RECURSIVE subdomain_loop(_, _, _)
subdomain_loop(s, i, cm) ==
    IF ~(i < Len(s)) THEN cm
    ELSE IF is_alnum(s[i + 1])
    THEN Bind(run_end(alnum, s, i), LAMBDA j : subdomain_loop(s, j, j))
    ELSE IF s[i + 1] = "-"
    THEN Bind(skip_dashes(s, i), LAMBDA j : subdomain_loop(s, j, cm))
    ELSE cm

get_subdomain_len(s) ==
    IF Len(s) = 0 THEN 0
    ELSE IF is_alnum(s[1]) THEN subdomain_loop(s, 1, 1)
    ELSE 0

\* The loop of get_domain_len with the next subdomain measured on the whole
\* of s, and not on what follows the dot.
RECURSIVE domain_loop_whole_slice(_, _)
domain_loop_whole_slice(s, cm) ==
    IF cm < Len(s) /\ s[cm + 1] = "."
    THEN Bind(get_subdomain_len(s),
              LAMBDA len : IF len > 0 THEN domain_loop_whole_slice(s, cm + 1 + len) ELSE cm)
    ELSE cm

\* The loop of get_domain_len with the dot counted before the subdomain
\* after it is found.
RECURSIVE domain_loop_dot_first(_, _)
domain_loop_dot_first(s, cm) ==
    IF cm < Len(s) /\ s[cm + 1] = "."
    THEN Bind(Bind(slice_from(s, cm + 1), get_subdomain_len),
              LAMBDA len : IF len > 0 THEN domain_loop_dot_first(s, cm + 1 + len)
                                      ELSE cm + 1)
    ELSE cm

\* The loop of get_domain_len, from confirmed_min cm.
RECURSIVE domain_loop(_, _)
domain_loop(s, cm) ==
    IF cm < Len(s) /\ s[cm + 1] = "."
    THEN Bind(Bind(slice_from(s, cm + 1), get_subdomain_len),
              LAMBDA len : IF len > 0 THEN domain_loop(s, cm + 1 + len) ELSE cm)
    ELSE cm

get_domain_len(s) ==
    Bind(get_subdomain_len(s),
         LAMBDA confirmed_min :
             IF confirmed_min > 0 THEN domain_loop(s, confirmed_min) ELSE confirmed_min)

get_atom_len(s) == run_end(atext, s, 0)

RECURSIVE dot_string_loop(_, _)
dot_string_loop(s, cm) ==
    IF cm < Len(s) /\ s[cm + 1] = "."
    THEN Bind(Bind(slice_from(s, cm + 1), get_atom_len),
              LAMBDA len : IF len > 0 THEN dot_string_loop(s, cm + 1 + len) ELSE cm)
    ELSE cm

get_dot_string_len(s) ==
    Bind(get_atom_len(s),
         LAMBDA confirmed_min :
             IF confirmed_min > 0 THEN dot_string_loop(s, confirmed_min) ELSE confirmed_min)

\* The loop of get_quoted_string_len: the offset at which it breaks. A run
\* of regular text is taken in one step.
RECURSIVE quoted_string_loop(_, _)
quoted_string_loop(s, len) ==
    IF len < Len(s) /\ is_qtext_smtp(s[len + 1])
    THEN Bind(run_end(qtext_smtp, s, len), LAMBDA j : quoted_string_loop(s, j))
    ELSE IF len + 1 < Len(s) /\ is_quoted_pair_smtp(s[len + 1], s[len + 2])
    THEN Bind(len + 2, LAMBDA j : quoted_string_loop(s, j))
    ELSE len

get_quoted_string_len(s) ==
    IF Len(s) < 2 \/ s[1] # "\"" THEN 0
    ELSE Bind(quoted_string_loop(s, 1),
              LAMBDA len : IF len < Len(s) /\ s[len + 1] = "\"" THEN len + 1 ELSE 0)

get_at_domain_len(s) ==
    IF Len(s) < 1 \/ s[1] # "@" THEN 0
    ELSE Bind(Bind(slice_from(s, 1), get_domain_len),
              LAMBDA len : IF len > 0 THEN len + 1 ELSE 0)

\* The loop of get_source_route_len: the total length when it breaks.
RECURSIVE source_route_loop(_, _)
source_route_loop(s, len) ==
    Bind(Bind(slice_from(s, len), get_at_domain_len),
         LAMBDA curr_len :
             IF curr_len > 0
             THEN IF len + curr_len < Len(s) /\ s[len + curr_len + 1] = ","
                  THEN Bind(len + curr_len + 1, LAMBDA j : source_route_loop(s, j))
                  ELSE len + curr_len
             ELSE len)

get_source_route_len(s) ==
    Bind(source_route_loop(s, 0),
         LAMBDA len : IF len < Len(s) /\ s[len + 1] = ":" THEN len + 1 ELSE 0)

(***************************************************************************)
(* Option values, and the Option-returning scanners that the mailbox       *)
(* parser calls (common/utils.rs): each is the prefix its *_len scanner    *)
(* measures, or None when that length is 0.                                *)
(***************************************************************************)

None == [some |-> FALSE]

Some(v) == [some |-> TRUE, val |-> v]

get_dot_string(s) ==
    Bind(get_dot_string_len(s), LAMBDA len : IF len > 0 THEN Some(slice_to(s, len)) ELSE None)

\* The loop of unescape_quoted_string, at offset i with out built so far.
RECURSIVE unescape_loop(_, _, _)
unescape_loop(s, i, out) ==
    IF ~(i < Len(s) - 1) THEN out
    ELSE IF is_atext(s[i + 1]) \/ is_qtext_smtp(s[i + 1])
    THEN unescape_loop(s, i + 1, Append(out, s[i + 1]))
    ELSE unescape_loop(s, i + 2, Append(out, s[i + 2]))

unescape_quoted_string(s) == unescape_loop(s, 1, <<>>)

\* The second loop of simplify_quoted_string, at offset i with out built so
\* far.
RECURSIVE simplify_loop(_, _, _)
simplify_loop(s, i, out) ==
    IF ~(i < Len(s) - 1) THEN out
    ELSE IF is_qtext_smtp(s[i + 1])
    THEN simplify_loop(s, i + 1, Append(out, s[i + 1]))
    ELSE IF s[i + 2] = "\"" \/ s[i + 2] = "\\"
    THEN simplify_loop(s, i + 2, out \o <<s[i + 1], s[i + 2]>>)
    ELSE simplify_loop(s, i + 2, Append(out, s[i + 2]))

simplify_quoted_string(s) ==
    Bind(unescape_quoted_string(s),
         LAMBDA out : IF get_dot_string_len(out) = Len(out)
                      THEN out
                      ELSE Append(simplify_loop(s, 1, <<"\"">>), "\""))

get_quoted_string(s) ==
    Bind(get_quoted_string_len(s), LAMBDA len : IF len > 0 THEN Some(slice_to(s, len)) ELSE None)

get_domain(s) ==
    Bind(get_domain_len(s), LAMBDA len : IF len > 0 THEN Some(slice_to(s, len)) ELSE None)

get_source_route(s) ==
    Bind(get_source_route_len(s), LAMBDA len : IF len > 0 THEN Some(slice_to(s, len)) ELSE None)

\* The offset of the first occurrence of character c in s at or after offset
\* i, or Len(s) when there is none.
find_char(s, c, i) ==
    IF i >= Len(s) THEN Len(s) ELSE run_end(Chars \ {c}, s, i)

\* The fields of s between the separators c.
RECURSIVE split(_, _)
split(s, c) ==
    Bind(find_char(s, c, 0),
         LAMBDA i : IF i = Len(s) THEN <<s>>
                    ELSE <<slice_to(s, i)>>
                         \o Bind(slice_from(s, i + 1), LAMBDA t : split(t, c)))

is_digit(c) == Ord(c) \in 48..57

is_hex_digit(c) == Ord(c) \in 48..57 \/ Ord(c) \in 65..70 \/ Ord(c) \in 97..102

hex_value(c) ==
    IF Ord(c) \in 48..57 THEN Ord(c) - 48
    ELSE IF Ord(c) \in 65..70 THEN Ord(c) - 55
    ELSE Ord(c) - 87

\* The value of a string of digits in the given radix.
RECURSIVE number_value(_, _)
number_value(s, radix) ==
    IF Len(s) = 0 THEN 0
    ELSE number_value(slice_to(s, Len(s) - 1), radix) * radix + hex_value(s[Len(s)])

\* A dotted quad: four decimal fields of 1 to 3 digits, each at most 255.
parse_ipv4(s) ==
    LET ok(t) == /\ Len(t) \in 1..3
                 /\ \A i \in DOMAIN t : is_digit(t[i])
                 /\ number_value(t, 10) <= 255
    IN  Bind(split(s, "."),
             LAMBDA f : IF Len(f) = 4 /\ \A i \in 1..4 : ok(f[i])
                        THEN Some([i \in 1..4 |-> number_value(f[i], 10)])
                        ELSE None)

\* The two-character separator "::" first occurs in s at this offset, or
\* Len(s) when it does not occur.
find_double_colon(s, i) ==
    Bind({j \in i..(Len(s) - 2) : s[j + 1] = ":" /\ s[j + 2] = ":"},
         LAMBDA at : IF at = {} THEN Len(s) ELSE CHOOSE j \in at : \A k \in at : j <= k)

\* An IPv6 address: eight groups of 1 to 4 hex digits separated by ':',
\* where one "::" may stand for one or more groups of zeros.
parse_ipv6(s) ==
    LET groups(t) == IF Len(t) = 0 THEN <<>> ELSE split(t, ":")
        ok(g) == \A i \in DOMAIN g :
                    Len(g[i]) \in 1..4 /\ \A j \in DOMAIN g[i] : is_hex_digit(g[i][j])
        vals(g) == [i \in DOMAIN g |-> number_value(g[i], 16)]
        whole(g) == IF Len(g) = 8 /\ ok(g) THEN Some(vals(g)) ELSE None
        halves(p) == IF ok(p[1]) /\ ok(p[2]) /\ Len(p[1]) + Len(p[2]) <= 7
                     THEN Some(vals(p[1])
                               \o [i \in 1..(8 - Len(p[1]) - Len(p[2])) |-> 0]
                               \o vals(p[2]))
                     ELSE None
    IN  Bind(find_double_colon(s, 0),
             LAMBDA dc : IF dc = Len(s)
                         THEN Bind(groups(s), whole)
                         ELSE Bind(<<groups(slice_to(s, dc)), groups(slice_from(s, dc + 2))>>,
                                   halves))

\* The IP literal at the start of s: "[<ipv4>]" or "[Ipv6:<ipv6>]". Some of
\* the literal's text and the address, or None.
get_mailbox_ip(s) ==
    LET tag == <<"I", "p", "v", "6", ":">>
        address(inner) == IF starts_with(inner, tag)
                          THEN Bind(slice_from(inner, Len(tag)), parse_ipv6)
                          ELSE parse_ipv4(inner)
    IN  IF Len(s) < 2 \/ s[1] # "[" THEN None
        ELSE Bind(find_char(s, "]", 0),
                  LAMBDA close :
                      IF close = Len(s) THEN None
                      ELSE Bind(Bind(slice(s, 1, close), address),
                                LAMBDA addr :
                                    IF ~addr.some THEN None
                                    ELSE Some([ip |-> slice_to(s, close + 1),
                                               addr |-> addr.val])))

(***************************************************************************)
(* The mailbox parser of src/common/mailbox.rs.                            *)
(***************************************************************************)

MAX_MAILBOX_LOCAL_PART_LEN == 64

MAX_MAILBOX_LEN == 254

MAX_DOMAIN_LEN == 255

\* Result<Mailbox, MailboxParseError>
Ok(v) == [ok |-> TRUE, val |-> v]

Err(e) == [ok |-> FALSE, err |-> e]

\* MailboxForeignPart
Domain(d) == [kind |-> "Domain", domain |-> d]

IpAddr(a) == [kind |-> "IpAddr", addr |-> a]

Mailbox(lp, fp) == [local_part |-> lp, foreign_part |-> fp]

is_ascii(s) == \A i \in DOMAIN s : Ord(s[i]) < 128

postmaster == <<"p", "o", "s", "t", "m", "a", "s", "t", "e", "r">>

get_mailbox_local_part(s) ==
    Bind(get_dot_string(s), LAMBDA ds : IF ds.some THEN ds ELSE get_quoted_string(s))

\* An end of Mailbox::parse that compares the local part with "postmaster"
\* as it is written, and folds nothing.
parse_finish_exact(s, offset, local_part, foreign_part) ==
    IF offset # Len(s) THEN Err("ForeignPartUnrecognized")
    ELSE IF offset > MAX_MAILBOX_LEN THEN Err("TooLong")
    ELSE Ok(Mailbox(IF local_part = postmaster THEN postmaster ELSE local_part,
                    foreign_part))

\* An end of Mailbox::parse that takes an address of MAX_MAILBOX_LEN
\* characters for too long.
parse_finish_at_limit(s, offset, local_part, foreign_part) ==
    IF offset # Len(s) THEN Err("ForeignPartUnrecognized")
    ELSE IF offset >= MAX_MAILBOX_LEN THEN Err("TooLong")
    ELSE IF is_ascii(local_part)
    THEN Bind(into_ascii_lowercase(local_part),
              LAMBDA lower : Ok(Mailbox(IF lower = postmaster THEN postmaster ELSE lower,
                                        foreign_part)))
    ELSE Ok(Mailbox(local_part, foreign_part))

\* The end of Mailbox::parse: the checks on the whole input, then the case
\* folding of an ASCII local part.
parse_finish(s, offset, local_part, foreign_part) ==
    IF offset # Len(s) THEN Err("ForeignPartUnrecognized")
    ELSE IF offset > MAX_MAILBOX_LEN THEN Err("TooLong")
    ELSE IF is_ascii(local_part)
    THEN Bind(into_ascii_lowercase(local_part),
              LAMBDA lower : Ok(Mailbox(IF lower = postmaster THEN postmaster ELSE lower,
                                        foreign_part)))
    ELSE Ok(Mailbox(local_part, foreign_part))

\* A foreign part whose domain of MAX_DOMAIN_LEN characters is too long.
parse_foreign_part_domain_at_limit(s, offset0, local_part) ==
    IF offset0 >= Len(s) THEN Err("AtNotFound")
    ELSE IF s[offset0 + 1] # "@" THEN Err("LocalPartUnrecognized")
    ELSE LET offset == offset0 + 1
             with_ip(ip) ==
                 IF ip.some
                 THEN parse_finish(s, offset + Len(ip.val.ip), local_part,
                                   IpAddr(ip.val.addr))
                 ELSE Err("ForeignPartUnrecognized")
             with_domain(d) ==
                 IF d.some
                 THEN IF Len(d.val) >= MAX_DOMAIN_LEN THEN Err("DomainTooLong")
                      ELSE parse_finish(s, offset + Len(d.val), local_part,
                                        Domain(slice(s, offset, offset + Len(d.val))))
                 ELSE Bind(Bind(slice_from(s, offset), get_mailbox_ip), with_ip)
         IN  Bind(Bind(slice_from(s, offset), get_domain), with_domain)

\* A foreign part whose domain is compared with MAX_MAILBOX_LEN.
parse_foreign_part_mailbox_limit(s, offset0, local_part) ==
    IF offset0 >= Len(s) THEN Err("AtNotFound")
    ELSE IF s[offset0 + 1] # "@" THEN Err("LocalPartUnrecognized")
    ELSE LET offset == offset0 + 1
             with_ip(ip) ==
                 IF ip.some
                 THEN parse_finish(s, offset + Len(ip.val.ip), local_part,
                                   IpAddr(ip.val.addr))
                 ELSE Err("ForeignPartUnrecognized")
             with_domain(d) ==
                 IF d.some
                 THEN IF Len(d.val) > MAX_MAILBOX_LEN THEN Err("DomainTooLong")
                      ELSE parse_finish(s, offset + Len(d.val), local_part,
                                        Domain(slice(s, offset, offset + Len(d.val))))
                 ELSE Bind(Bind(slice_from(s, offset), get_mailbox_ip), with_ip)
         IN  Bind(Bind(slice_from(s, offset), get_domain), with_domain)

\* Mailbox::parse from the '@' on: offset is that of the character after the
\* local part.
parse_foreign_part(s, offset0, local_part) ==
    IF offset0 >= Len(s) THEN Err("AtNotFound")
    ELSE IF s[offset0 + 1] # "@" THEN Err("LocalPartUnrecognized")
    ELSE LET offset == offset0 + 1
             with_ip(ip) ==
                 IF ip.some
                 THEN parse_finish(s, offset + Len(ip.val.ip), local_part,
                                   IpAddr(ip.val.addr))
                 ELSE Err("ForeignPartUnrecognized")
             with_domain(d) ==
                 IF d.some
                 THEN IF Len(d.val) > MAX_DOMAIN_LEN THEN Err("DomainTooLong")
                      ELSE parse_finish(s, offset + Len(d.val), local_part,
                                        Domain(slice(s, offset, offset + Len(d.val))))
                 ELSE Bind(Bind(slice_from(s, offset), get_mailbox_ip), with_ip)
         IN  Bind(Bind(slice_from(s, offset), get_domain), with_domain)

\* A Mailbox::parse that takes a local part of MAX_MAILBOX_LOCAL_PART_LEN
\* characters for too long.
parse_local_at_limit(s) ==
    LET from(offset) ==
            Bind(Bind(slice_from(s, offset), get_mailbox_local_part),
                 LAMBDA lp :
                     IF ~lp.some THEN Err("LocalPartUnrecognized")
                     ELSE IF Len(lp.val) >= MAX_MAILBOX_LOCAL_PART_LEN
                     THEN Err("LocalPartTooLong")
                     ELSE parse_foreign_part(s, offset + Len(lp.val), lp.val))
    IN  Bind(Bind(get_source_route(s), LAMBDA sr : IF sr.some THEN Len(sr.val) ELSE 0),
             from)

\* A Mailbox::parse that tests the length of the whole text first.
parse_length_first(s) ==
    LET from(offset) ==
            Bind(Bind(slice_from(s, offset), get_mailbox_local_part),
                 LAMBDA lp :
                     IF ~lp.some THEN Err("LocalPartUnrecognized")
                     ELSE IF Len(lp.val) > MAX_MAILBOX_LOCAL_PART_LEN
                     THEN Err("LocalPartTooLong")
                     ELSE parse_foreign_part(s, offset + Len(lp.val), lp.val))
    IN  IF Len(s) > MAX_MAILBOX_LEN THEN Err("TooLong")
        ELSE Bind(Bind(get_source_route(s),
                       LAMBDA sr : IF sr.some THEN Len(sr.val) ELSE 0),
                  from)

\* Mailbox::parse
parse(s) ==
    LET from(offset) ==
            Bind(Bind(slice_from(s, offset), get_mailbox_local_part),
                 LAMBDA lp :
                     IF ~lp.some THEN Err("LocalPartUnrecognized")
                     ELSE IF Len(lp.val) > MAX_MAILBOX_LOCAL_PART_LEN
                     THEN Err("LocalPartTooLong")
                     ELSE parse_foreign_part(s, offset + Len(lp.val), lp.val))
    IN  Bind(Bind(get_source_route(s), LAMBDA sr : IF sr.some THEN Len(sr.val) ELSE 0),
             from)

(***************************************************************************)
(* The server of src/server/mod.rs: transaction states, command handlers   *)
(* and the dispatch table.                                                 *)
(*                                                                         *)
(* A handler is an operator from the transaction state, the rest of the    *)
(* line and the answer `ev` of the event-handler hook it may call (TRUE    *)
(* for Ok(()), FALSE for Err(())) to an Outcome: the new state, the reply  *)
(* lines written, the hook calls made, and how the handler ended. Writes   *)
(* to the transport are taken to succeed.                                  *)
(***************************************************************************)

\* SmtpTransactionState
TransactionStates == {"Init", "Helo", "Mail", "Rcpt", "Data"}

\* SmtpTransactionState::reset (common/transaction.rs): back to Init.
reset(st) == "Init"

\* A call of an event-handler hook: its name, its argument, its answer.
Call(hook, arg, ev) == [hook |-> hook, arg |-> arg, ok |-> ev]

\* How a handler ends: "Ok" and "Err" are its return values Ok(()) and
\* Err(()); "Panic" is a failed unwrap or an index out of bounds, which ends
\* the connection's thread; "Reading" is the DATA handler inside its body loop,
\* waiting for the next line.
Outcome(st, rs, cs, res) == [state |-> st, replies |-> rs, calls |-> cs, res |-> res]

\* A HELO that takes any non-empty argument for a domain.
handle_command_helo_unchecked(st, line, ev) ==
    IF Len(line) = 0
    THEN Outcome(st, <<"501 Domain name not provided">>, <<>>, "Ok")
    ELSE IF ev
    THEN Outcome("Helo", <<"250 OK">>, <<Call("handle_domain", line, ev)>>, "Ok")
    ELSE Outcome(st, <<"550 Domain not taken">>, <<Call("handle_domain", line, ev)>>, "Ok")

handle_command_helo(st, line, ev) ==
    IF Len(line) = 0
    THEN Outcome(st, <<"501 Domain name not provided">>, <<>>, "Ok")
    ELSE IF get_domain_len(line) # Len(line)
    THEN Outcome(st, <<"501 Domain name is invalid">>, <<>>, "Ok")
    ELSE IF ev
    THEN Outcome("Helo", <<"250 OK">>, <<Call("handle_domain", line, ev)>>, "Ok")
    ELSE Outcome(st, <<"550 Domain not taken">>, <<Call("handle_domain", line, ev)>>, "Ok")

\* The reply to a mailbox that does not parse: format!("553 ...: {}", err).
reply_553(err) == "553 Email address invalid: " \o err

\* A MAIL that sets the state before the event handler has answered.
handle_command_mail_early(st, line, ev) ==
    IF Len(line) < 2 \/ line[1] # "<" \/ line[Len(line)] # ">"
    THEN Outcome(st, <<"501 Email address invalid, must start with < and end with >">>,
                 <<>>, "Ok")
    ELSE IF line = <<"<", ">">>
    THEN IF ev
         THEN Outcome("Mail", <<"250 OK">>, <<Call("handle_sender_address", None, ev)>>, "Ok")
         ELSE Outcome("Mail", <<"550 Mailnot available">>,
                      <<Call("handle_sender_address", None, ev)>>, "Ok")
    ELSE Bind(Bind(slice(line, 1, Len(line) - 1), parse),
              LAMBDA mailbox_res :
                  IF ~mailbox_res.ok
                  THEN Outcome(st, <<reply_553(mailbox_res.err)>>, <<>>, "Ok")
                  ELSE IF ev
                  THEN Outcome("Mail", <<"250 OK">>,
                               <<Call("handle_sender_address", Some(mailbox_res.val), ev)>>,
                               "Ok")
                  ELSE Outcome("Mail", <<"550 Mailnot taken">>,
                               <<Call("handle_sender_address", Some(mailbox_res.val), ev)>>,
                               "Ok"))

handle_command_mail(st, line, ev) ==
    IF Len(line) < 2 \/ line[1] # "<" \/ line[Len(line)] # ">"
    THEN Outcome(st, <<"501 Email address invalid, must start with < and end with >">>,
                 <<>>, "Ok")
    ELSE IF line = <<"<", ">">>
    THEN IF ev
         THEN Outcome("Mail", <<"250 OK">>, <<Call("handle_sender_address", None, ev)>>, "Ok")
         ELSE Outcome(st, <<"550 Mailnot available">>,
                      <<Call("handle_sender_address", None, ev)>>, "Ok")
    ELSE Bind(Bind(slice(line, 1, Len(line) - 1), parse),
              LAMBDA mailbox_res :
                  IF ~mailbox_res.ok
                  THEN Outcome(st, <<reply_553(mailbox_res.err)>>, <<>>, "Ok")
                  ELSE IF ev
                  THEN Outcome("Mail", <<"250 OK">>,
                               <<Call("handle_sender_address", Some(mailbox_res.val), ev)>>,
                               "Ok")
                  ELSE Outcome(st, <<"550 Mailnot taken">>,
                               <<Call("handle_sender_address", Some(mailbox_res.val), ev)>>,
                               "Ok"))

\* A RCPT that sets the state before the event handler has answered.
handle_command_rcpt_early(st, line, ev) ==
    IF Len(line) = 0
    THEN Outcome(st, <<>>, <<>>, "Panic")
    ELSE IF line[1] # "<" \/ line[Len(line)] # ">"
    THEN Outcome(st, <<"501 Email address invalid, must start with < and end with >">>,
                 <<>>, "Ok")
    ELSE Bind(Bind(slice(line, 1, Len(line) - 1), parse),
              LAMBDA mailbox_res :
                  IF ~mailbox_res.ok
                  THEN Outcome(st, <<reply_553(mailbox_res.err)>>, <<>>, "Ok")
                  ELSE IF ev
                  THEN Outcome("Rcpt", <<"250 OK">>,
                               <<Call("handle_receiver_address", mailbox_res.val, ev)>>, "Ok")
                  ELSE Outcome("Rcpt", <<"550 Mailnot available">>,
                               <<Call("handle_receiver_address", mailbox_res.val, ev)>>,
                               "Ok"))

\* line.char_at(0) on an empty line is an index out of bounds: the thread
\* panics before anything is written.
handle_command_rcpt(st, line, ev) ==
    IF Len(line) = 0
    THEN Outcome(st, <<>>, <<>>, "Panic")
    ELSE IF line[1] # "<" \/ line[Len(line)] # ">"
    THEN Outcome(st, <<"501 Email address invalid, must start with < and end with >">>,
                 <<>>, "Ok")
    ELSE Bind(Bind(slice(line, 1, Len(line) - 1), parse),
              LAMBDA mailbox_res :
                  IF ~mailbox_res.ok
                  THEN Outcome(st, <<reply_553(mailbox_res.err)>>, <<>>, "Ok")
                  ELSE IF ev
                  THEN Outcome("Rcpt", <<"250 OK">>,
                               <<Call("handle_receiver_address", mailbox_res.val, ev)>>, "Ok")
                  ELSE Outcome(st, <<"550 Mailnot available">>,
                               <<Call("handle_receiver_address", mailbox_res.val, ev)>>,
                               "Ok"))

\* handle_command_data up to its first read of a body line: ev is the answer
\* of handle_body_start, which is unwrapped.
\* handle_command_data asking the event handler before it answers 354.
handle_command_data_hook_first(st, line, ev) ==
    IF Len(line) # 0
    THEN Outcome(st, <<"501 No arguments allowed">>, <<>>, "Ok")
    ELSE Outcome(st,
                 IF ev THEN <<"354 Start mail input; end with <CRLF>.<CRLF>">> ELSE <<>>,
                 <<Call("handle_body_start", <<>>, ev)>>,
                 IF ev THEN "Reading" ELSE "Panic")

\* handle_command_data moving to a Data state when the body starts.
handle_command_data_enters_data(st, line, ev) ==
    IF Len(line) # 0
    THEN Outcome(st, <<"501 No arguments allowed">>, <<>>, "Ok")
    ELSE Outcome("Data", <<"354 Start mail input; end with <CRLF>.<CRLF>">>,
                 <<Call("handle_body_start", <<>>, ev)>>,
                 IF ev THEN "Reading" ELSE "Panic")

handle_command_data(st, line, ev) ==
    IF Len(line) # 0
    THEN Outcome(st, <<"501 No arguments allowed">>, <<>>, "Ok")
    ELSE Outcome(st, <<"354 Start mail input; end with <CRLF>.<CRLF>">>,
                 <<Call("handle_body_start", <<>>, ev)>>,
                 IF ev THEN "Reading" ELSE "Panic")

\* A RSET that forgets the transaction and keeps the greeting.
handle_command_rset_keeps_helo(st, line, ev) ==
    IF Len(line) # 0
    THEN Outcome(st, <<"501 No arguments allowed">>, <<>>, "Ok")
    ELSE Outcome(IF st = "Init" THEN "Init" ELSE "Helo", <<"250 OK">>, <<>>, "Ok")

\* A RSET that resets before it looks at its argument.
handle_command_rset_eager(st, line, ev) ==
    IF Len(line) # 0
    THEN Outcome(reset(st), <<"501 No arguments allowed">>, <<>>, "Ok")
    ELSE Outcome(reset(st), <<"250 OK">>, <<>>, "Ok")

handle_command_rset(st, line, ev) ==
    IF Len(line) # 0
    THEN Outcome(st, <<"501 No arguments allowed">>, <<>>, "Ok")
    ELSE Outcome(reset(st), <<"250 OK">>, <<>>, "Ok")

\* handle_command_vrfy asking for an argument.
handle_command_vrfy_needs_argument(st, line, ev) ==
    IF Len(line) = 0
    THEN Outcome(st, <<"501 Argument required">>, <<>>, "Ok")
    ELSE Outcome(st, <<"252 Cannot VRFY user">>, <<>>, "Ok")

handle_command_vrfy(st, line, ev) == Outcome(st, <<"252 Cannot VRFY user">>, <<>>, "Ok")

handle_command_expn(st, line, ev) ==
    Outcome(st, <<"252 Cannot EXPN mailing list">>, <<>>, "Ok")

\* handle_command_help accepting no text after the command word.
handle_command_help_no_text(st, line, ev) ==
    IF Len(line) = 0
    THEN Outcome(st, <<"502 Command not implemented">>, <<>>, "Ok")
    ELSE Outcome(st, <<"500 Command unrecognized">>, <<>>, "Ok")

handle_command_help(st, line, ev) ==
    IF Len(line) = 0 \/ line[1] = " "
    THEN Outcome(st, <<"502 Command not implemented">>, <<>>, "Ok")
    ELSE Outcome(st, <<"500 Command unrecognized">>, <<>>, "Ok")

\* A NOOP that forgets the transaction, as RSET does.
handle_command_noop_resets(st, line, ev) ==
    IF Len(line) = 0 \/ line[1] = " "
    THEN Outcome(reset(st), <<"250 OK">>, <<>>, "Ok")
    ELSE Outcome(st, <<"500 Command unrecognized">>, <<>>, "Ok")

handle_command_noop(st, line, ev) ==
    IF Len(line) = 0 \/ line[1] = " "
    THEN Outcome(st, <<"250 OK">>, <<>>, "Ok")
    ELSE Outcome(st, <<"500 Command unrecognized">>, <<>>, "Ok")

\* A QUIT handler that returns Ok(()) after the 221 reply.
handle_command_quit_ok(st, line, ev, domain) ==
    Outcome(st, <<"221 " \o domain>>, <<>>, "Ok")

handle_command_quit(st, line, ev, domain) ==
    Outcome(st, <<"221 " \o domain>>, <<>>, "Err")

\* A body loop that, after the 552 reply, starts counting again and goes on
\* reading.
data_body_line_reads_on(st, size, data_line, ev, max_message_size) ==
    IF size # 0 /\ data_line = <<".">>
    THEN [size |-> size,
          out |-> IF ev
                  THEN Outcome(reset(st), <<"250 OK">>,
                               <<Call("handle_body_end", <<>>, ev)>>, "Ok")
                  ELSE Outcome(st, <<>>, <<Call("handle_body_end", <<>>, ev)>>, "Panic")]
    ELSE IF ~ev
    THEN [size |-> size,
          out |-> Outcome(st, <<>>, <<Call("handle_body_part", data_line, ev)>>, "Panic")]
    ELSE IF size + Len(data_line) > max_message_size
    THEN [size |-> 0,
          out |-> Outcome(st, <<"552 Too much mail data, max "
                                   \o ToString(max_message_size) \o " bytes">>,
                          <<Call("handle_body_part", data_line, ev)>>, "Reading")]
    ELSE [size |-> size + Len(data_line),
          out |-> Outcome(st, <<>>, <<Call("handle_body_part", data_line, ev)>>, "Reading")]

\* A body loop that takes every lone dot for the end of the body.
data_body_line_any_dot(st, size, data_line, ev, max_message_size) ==
    IF data_line = <<".">>
    THEN [size |-> size,
          out |-> IF ev
                  THEN Outcome(reset(st), <<"250 OK">>,
                               <<Call("handle_body_end", <<>>, ev)>>, "Ok")
                  ELSE Outcome(st, <<>>, <<Call("handle_body_end", <<>>, ev)>>, "Panic")]
    ELSE IF ~ev
    THEN [size |-> size,
          out |-> Outcome(st, <<>>, <<Call("handle_body_part", data_line, ev)>>, "Panic")]
    ELSE IF size + Len(data_line) > max_message_size
    THEN [size |-> size + Len(data_line),
          out |-> Outcome(st, <<"552 Too much mail data, max "
                                   \o ToString(max_message_size) \o " bytes">>,
                          <<Call("handle_body_part", data_line, ev)>>, "Ok")]
    ELSE [size |-> size + Len(data_line),
          out |-> Outcome(st, <<>>, <<Call("handle_body_part", data_line, ev)>>, "Reading")]

\* A body loop that refuses a body as soon as it reaches max_message_size.
data_body_line_at_limit(st, size, data_line, ev, max_message_size) ==
    IF size # 0 /\ data_line = <<".">>
    THEN [size |-> size,
          out |-> IF ev
                  THEN Outcome(reset(st), <<"250 OK">>,
                               <<Call("handle_body_end", <<>>, ev)>>, "Ok")
                  ELSE Outcome(st, <<>>, <<Call("handle_body_end", <<>>, ev)>>, "Panic")]
    ELSE IF ~ev
    THEN [size |-> size,
          out |-> Outcome(st, <<>>, <<Call("handle_body_part", data_line, ev)>>, "Panic")]
    ELSE IF size + Len(data_line) >= max_message_size
    THEN [size |-> size + Len(data_line),
          out |-> Outcome(st, <<"552 Too much mail data, max "
                                   \o ToString(max_message_size) \o " bytes">>,
                          <<Call("handle_body_part", data_line, ev)>>, "Ok")]
    ELSE [size |-> size + Len(data_line),
          out |-> Outcome(st, <<>>, <<Call("handle_body_part", data_line, ev)>>, "Reading")]

\* A body loop that does not look at the answer of handle_body_end.
data_body_line_end_ignored(st, size, data_line, ev, max_message_size) ==
    IF size # 0 /\ data_line = <<".">>
    THEN [size |-> size,
          out |-> Outcome(reset(st), <<"250 OK">>,
                          <<Call("handle_body_end", <<>>, ev)>>, "Ok")]
    ELSE IF ~ev
    THEN [size |-> size,
          out |-> Outcome(st, <<>>, <<Call("handle_body_part", data_line, ev)>>, "Panic")]
    ELSE IF size + Len(data_line) > max_message_size
    THEN [size |-> size + Len(data_line),
          out |-> Outcome(st, <<"552 Too much mail data, max "
                                   \o ToString(max_message_size) \o " bytes">>,
                          <<Call("handle_body_part", data_line, ev)>>, "Ok")]
    ELSE [size |-> size + Len(data_line),
          out |-> Outcome(st, <<>>, <<Call("handle_body_part", data_line, ev)>>, "Reading")]

\* One pass of the body loop of handle_command_data on the line data_line,
\* with the loop's `size` before it; the Outcome and the size after it. ev is
\* the answer of the one hook the pass calls.
data_body_line(st, size, data_line, ev, max_message_size) ==
    IF size # 0 /\ data_line = <<".">>
    THEN [size |-> size,
          out |-> IF ev
                  THEN Outcome(reset(st), <<"250 OK">>,
                               <<Call("handle_body_end", <<>>, ev)>>, "Ok")
                  ELSE Outcome(st, <<>>, <<Call("handle_body_end", <<>>, ev)>>, "Panic")]
    ELSE IF ~ev
    THEN [size |-> size,
          out |-> Outcome(st, <<>>, <<Call("handle_body_part", data_line, ev)>>, "Panic")]
    ELSE IF size + Len(data_line) > max_message_size
    THEN [size |-> size + Len(data_line),
          out |-> Outcome(st, <<"552 Too much mail data, max "
                                   \o ToString(max_message_size) \o " bytes">>,
                          <<Call("handle_body_part", data_line, ev)>>, "Ok")]
    ELSE [size |-> size + Len(data_line),
          out |-> Outcome(st, <<>>, <<Call("handle_body_part", data_line, ev)>>, "Reading")]

\* SmtpHandler
SmtpHandler(command_start, allowed_states, callback) ==
    [command_start |-> command_start, allowed_states |-> allowed_states,
     callback |-> callback]

AllStates == {"Init", "Helo", "Mail", "Rcpt", "Data"}

\* A table whose MAIL entry allows Init as well: MAIL without HELO.
handlers_mail_in_init ==
    << SmtpHandler(<<"H", "E", "L", "O", " ">>, {"Init"}, "handle_command_helo"),
       SmtpHandler(<<"E", "H", "L", "O", " ">>, {"Init"}, "handle_command_helo"),
       SmtpHandler(<<"M", "A", "I", "L", " ", "F", "R", "O", "M", ":">>, {"Init", "Helo"},
                   "handle_command_mail"),
       SmtpHandler(<<"R", "C", "P", "T", " ", "T", "O", ":">>, {"Mail", "Rcpt"},
                   "handle_command_rcpt"),
       SmtpHandler(<<"D", "A", "T", "A">>, {"Rcpt"}, "handle_command_data"),
       SmtpHandler(<<"R", "S", "E", "T">>, AllStates, "handle_command_rset"),
       SmtpHandler(<<"V", "R", "F", "Y", " ">>, AllStates, "handle_command_vrfy"),
       SmtpHandler(<<"E", "X", "P", "N", " ">>, AllStates, "handle_command_expn"),
       SmtpHandler(<<"H", "E", "L", "P">>, AllStates, "handle_command_help"),
       SmtpHandler(<<"N", "O", "O", "P">>, AllStates, "handle_command_noop"),
       SmtpHandler(<<"Q", "U", "I", "T">>, AllStates, "handle_command_quit") >>

\* The handler table built by new_from_acceptor.
handlers ==
    << SmtpHandler(<<"H", "E", "L", "O", " ">>, {"Init"}, "handle_command_helo"),
       SmtpHandler(<<"E", "H", "L", "O", " ">>, {"Init"}, "handle_command_helo"),
       SmtpHandler(<<"M", "A", "I", "L", " ", "F", "R", "O", "M", ":">>, {"Helo"},
                   "handle_command_mail"),
       SmtpHandler(<<"R", "C", "P", "T", " ", "T", "O", ":">>, {"Mail", "Rcpt"},
                   "handle_command_rcpt"),
       SmtpHandler(<<"D", "A", "T", "A">>, {"Rcpt"}, "handle_command_data"),
       SmtpHandler(<<"R", "S", "E", "T">>, AllStates, "handle_command_rset"),
       SmtpHandler(<<"V", "R", "F", "Y", " ">>, AllStates, "handle_command_vrfy"),
       SmtpHandler(<<"E", "X", "P", "N", " ">>, AllStates, "handle_command_expn"),
       SmtpHandler(<<"H", "E", "L", "P">>, AllStates, "handle_command_help"),
       SmtpHandler(<<"N", "O", "O", "P">>, AllStates, "handle_command_noop"),
       SmtpHandler(<<"Q", "U", "I", "T">>, AllStates, "handle_command_quit") >>

\* A match that compares the line's first characters as they are, without
\* into_ascii_upper.
handler_matches_exact(h, line) ==
    /\ ~(Len(line) < Len(h.command_start))
    /\ starts_with(slice_to(line, Len(h.command_start)), h.command_start)

\* Whether table entry h matches the line: the test inside the loop of
\* get_handler_for_line.
handler_matches(h, line) ==
    /\ ~(Len(line) < Len(h.command_start))
    /\ starts_with(into_ascii_upper(slice_to(line, Len(h.command_start))),
                   h.command_start)

\* get_handler_for_line: Some of the index of the first entry that matches.
get_handler_for_line(hs, line) ==
    Bind({i \in DOMAIN hs : handler_matches(hs[i], line)},
         LAMBDA found : IF found = {} THEN None
                        ELSE Some(CHOOSE i \in found : \A j \in found : i <= j))

\* (handler.callback)(...): the call through the table's function pointer.
callback(h, st, line, ev, domain) ==
    CASE h.callback = "handle_command_helo" -> handle_command_helo(st, line, ev)
      [] h.callback = "handle_command_mail" -> handle_command_mail(st, line, ev)
      [] h.callback = "handle_command_rcpt" -> handle_command_rcpt(st, line, ev)
      [] h.callback = "handle_command_data" -> handle_command_data(st, line, ev)
      [] h.callback = "handle_command_rset" -> handle_command_rset(st, line, ev)
      [] h.callback = "handle_command_vrfy" -> handle_command_vrfy(st, line, ev)
      [] h.callback = "handle_command_expn" -> handle_command_expn(st, line, ev)
      [] h.callback = "handle_command_help" -> handle_command_help(st, line, ev)
      [] h.callback = "handle_command_noop" -> handle_command_noop(st, line, ev)
      [] h.callback = "handle_command_quit" -> handle_command_quit(st, line, ev, domain)

\* A guard that lets every state pass: read_and_handle_command without its
\* test of allowed_states.
state_allowed_any(h, st) == TRUE

\* The state guard of read_and_handle_command.
state_allowed(h, st) == st \in h.allowed_states

\* read_and_handle_command returning Err(()) for a line no entry matches.
handle_line_unrecognized_fatal(hs, st, line, ev, domain) ==
    LET run(handler) ==
            IF state_allowed(handler, st)
            THEN Bind(slice_from(line, Len(handler.command_start)),
                      LAMBDA rest : callback(handler, st, rest, ev, domain))
            ELSE Outcome(st, <<"503 Bad sequence of commands">>, <<>>, "Ok")
    IN  Bind(get_handler_for_line(hs, line),
             LAMBDA h : IF h.some THEN Bind(hs[h.val], run)
                        ELSE Outcome(st, <<"500 Command unrecognized">>, <<>>, "Err"))

\* read_and_handle_command once input.read_line() has returned Ok(line).
handle_line(hs, st, line, ev, domain) ==
    LET run(handler) ==
            IF state_allowed(handler, st)
            THEN Bind(slice_from(line, Len(handler.command_start)),
                      LAMBDA rest : callback(handler, st, rest, ev, domain))
            ELSE Outcome(st, <<"503 Bad sequence of commands">>, <<>>, "Ok")
    IN  Bind(get_handler_for_line(hs, line),
             LAMBDA h : IF h.some THEN Bind(hs[h.val], run)
                        ELSE Outcome(st, <<"500 Command unrecognized">>, <<>>, "Ok"))

\* read_and_handle_command once input.read_line() has returned Err(err).
handle_read_error(st, kind) ==
    IF kind = "InvalidInput"
    THEN Outcome(st, <<"500 Command line too long, max is 512 bytes">>, <<>>, "Ok")
    ELSE Outcome(st, <<>>, <<>>, "Err")

(***************************************************************************)
(* The inputs of the model.                                                *)
(***************************************************************************)

\* The configured max_message_size, scaled down so that a few short body
\* lines reach it.
MaxMessageSize == 3

\* The body lines one DATA command is followed through.
MaxBodyLines == 3

\* Command words: the table's prefixes, two of them in another letter case,
\* HELO without its space, an unknown word, and nothing.
Verbs ==
    { <<"H", "E", "L", "O", " ">>, <<"h", "e", "l", "o", " ">>,
      <<"E", "H", "L", "O", " ">>,
      <<"M", "A", "I", "L", " ", "F", "R", "O", "M", ":">>,
      <<"R", "C", "P", "T", " ", "T", "O", ":">>, <<"r", "c", "p", "t", " ", "T", "o", ":">>,
      <<"D", "A", "T", "A">>, <<"R", "S", "E", "T">>,
      <<"V", "R", "F", "Y", " ">>, <<"E", "X", "P", "N", " ">>,
      <<"H", "E", "L", "P">>, <<"N", "O", "O", "P">>, <<"Q", "U", "I", "T">>,
      <<"H", "E", "L", "O">>, <<"F", "O", "O">>, <<>> }

\* Arguments: none, a domain, a string that is no domain, a text after a
\* space, the null path, a mailbox in brackets, one that lacks its closing
\* bracket, one without '@', and a lone bracket.
Args ==
    { <<>>, <<"a", ".", "b">>, <<"a", "-">>, <<" ", "x">>, <<"<", ">">>,
      <<"<", "A", "@", "b", ">">>, <<"<", "a", "@", "b">>, <<"<", "a", ">">>, <<"<">> }

\* The lines a body is made of: the empty line, the lone dot, data.
BodyLines == { <<>>, <<".">>, <<"a">>, <<"a", "b">>, <<".", ".">> }

\* The lines a client sends where a command is expected.
Lines == {v \o a : v \in Verbs, a \in Args} \cup BodyLines

\* The lines of the bodies that the clients send when several connections
\* are served at once.
BodyLines2 == { <<".">>, <<"a">> }

\* The lines that these clients send where a command is expected: one for
\* each command of the table, and the two above.
Lines2 ==
    { <<"H", "E", "L", "O", " ", "a", ".", "b">>,
      <<"M", "A", "I", "L", " ", "F", "R", "O", "M", ":", "<", "A", "@", "b", ">">>,
      <<"R", "C", "P", "T", " ", "T", "O", ":", "<", "A", "@", "b", ">">>,
      <<"D", "A", "T", "A">>, <<"R", "S", "E", "T">>,
      <<"V", "R", "F", "Y", " ", "a", ".", "b">>, <<"E", "X", "P", "N", " ", "a", ".", "b">>,
      <<"H", "E", "L", "P">>, <<"N", "O", "O", "P">>, <<"Q", "U", "I", "T">> }
    \cup BodyLines2

\* The configured max_recipients, scaled down so that a few RCPT commands
\* reach it.
MaxRecipients == 2

\* The floors of the configuration (common/mod.rs). The floors of
\* max_message_size and max_recipients are scaled like MaxMessageSize and
\* MaxRecipients.
MIN_ALLOWED_MESSAGE_SIZE == 3

MIN_ALLOWED_LINE_SIZE == 1000

MIN_ALLOWED_RECIPIENTS == 2

\* The SmtpServerConfig: immutable, shared by every connection.
config ==
    [ domain |-> "mx.example.org",
      max_message_size |-> MaxMessageSize,
      max_line_size |-> MIN_ALLOWED_LINE_SIZE,
      max_recipients |-> MaxRecipients ]

\* SmtpServerError
MaxMessageSizeTooLow(n) == [kind |-> "MaxMessageSizeTooLow", value |-> n]

MaxLineSizeTooLow(n) == [kind |-> "MaxLineSizeTooLow", value |-> n]

MaxRecipientsTooLow(n) == [kind |-> "MaxRecipientsTooLow", value |-> n]

BindFailed == [kind |-> "BindFailed"]

ListenFailed == [kind |-> "ListenFailed"]

\* A constructor that tests the line size before the message size.
new_from_acceptor_line_first(cfg) ==
    IF cfg.max_line_size < MIN_ALLOWED_LINE_SIZE
    THEN Err(MaxLineSizeTooLow(cfg.max_line_size))
    ELSE IF cfg.max_message_size < MIN_ALLOWED_MESSAGE_SIZE
    THEN Err(MaxMessageSizeTooLow(cfg.max_message_size))
    ELSE IF cfg.max_recipients < MIN_ALLOWED_RECIPIENTS
    THEN Err(MaxRecipientsTooLow(cfg.max_recipients))
    ELSE Ok([config |-> cfg, handlers |-> handlers])

\* SmtpServer::new_from_acceptor
new_from_acceptor(cfg) ==
    IF cfg.max_message_size < MIN_ALLOWED_MESSAGE_SIZE
    THEN Err(MaxMessageSizeTooLow(cfg.max_message_size))
    ELSE IF cfg.max_line_size < MIN_ALLOWED_LINE_SIZE
    THEN Err(MaxLineSizeTooLow(cfg.max_line_size))
    ELSE IF cfg.max_recipients < MIN_ALLOWED_RECIPIENTS
    THEN Err(MaxRecipientsTooLow(cfg.max_recipients))
    ELSE Ok([config |-> cfg, handlers |-> handlers])

\* SmtpServer::new: bind_ok and listen_ok are the outcomes of
\* TcpListener::bind and of listener.listen().
new(cfg, bind_ok, listen_ok) ==
    IF ~bind_ok THEN Err(BindFailed)
    ELSE IF ~listen_ok THEN Err(ListenFailed)
    ELSE new_from_acceptor(cfg)

\* The values of a configuration field around its floor.
Around(floor) == {0, floor - 1, floor, floor + 1}

\* The configurations a server is constructed from.
Configs ==
    { [domain |-> config.domain, max_message_size |-> m, max_line_size |-> l,
       max_recipients |-> r] :
        m \in Around(MIN_ALLOWED_MESSAGE_SIZE), l \in Around(MIN_ALLOWED_LINE_SIZE),
        r \in Around(MIN_ALLOWED_RECIPIENTS) }

(***************************************************************************)
(* The state: the construction of the server, and one thread per           *)
(* connection (SmtpServer::run). Every variable but `server` is a function *)
(* of the connection.                                                      *)
(***************************************************************************)

VARIABLES
    pc,        \* where the thread is: "new" (spawned), "cmd" (inner_loop, about
               \* to read a command), "body" (handle_command_data, about to
               \* read a body line), "closed" (ended)
    state,     \* the SmtpTransactionState of inner_loop
    size,      \* the `size` of handle_command_data
    input,     \* what the last input.read_line() returned
    replies,   \* the reply lines written since that read
    calls,     \* the event-handler calls made since that read
    before,    \* the transaction state at that read
    progress,  \* the commands answered 250 OK since the last reset, among
               \* HELO/EHLO, MAIL and RCPT, an immediate repeat left out
    body,      \* the body lines read by the DATA command in progress
    parts,     \* the lines that DATA command passed to handle_body_part
    recipients, \* the number of RCPT commands answered 250 OK in the mail
               \* transaction in progress, counted up to MaxRecipients + 1
    server,    \* the SmtpServerConfig given to SmtpServer::new, the outcomes
               \* of bind and listen, and what new returned, None before
    applied,   \* a function of the grammar called on its own: its name, its
               \* argument, and what it returned, None before
    container  \* the commands::State of the connection that the MAIL command
               \* of server/commands/mail.rs is run on

vars ==
    << pc, state, size, input, replies, calls, before, progress, body, parts,
       recipients, server, applied, container >>

Conns == DOMAIN pc

\* The state of the threads of the connections cs, each just spawned.
Spawned(cs) ==
    /\ pc = [c \in cs |-> "new"]
    /\ state = [c \in cs |-> "Init"]
    /\ size = [c \in cs |-> 0]
    /\ input = [c \in cs |-> Err("NotRead")]
    /\ replies = [c \in cs |-> <<>>]
    /\ calls = [c \in cs |-> <<>>]
    /\ before = [c \in cs |-> "Init"]
    /\ progress = [c \in cs |-> <<>>]
    /\ body = [c \in cs |-> <<>>]
    /\ parts = [c \in cs |-> <<>>]
    /\ recipients = [c \in cs |-> 0]

\* What SmtpServer::new leaves behind.
Constructed(cfg, bind_ok, listen_ok) ==
    [config |-> cfg, bind_ok |-> bind_ok, listen_ok |-> listen_ok,
     result |-> Some(new(cfg, bind_ok, listen_ok))]

\* No function of the grammar is called on its own.
Idle == [f |-> "none", arg |-> <<>>, res |-> None]

(***************************************************************************)
(* commands::State (server/commands/mod.rs): four maps from keys to        *)
(* values, one for each type. A map is a function on the keys it holds.    *)
(***************************************************************************)

\* HashMap::new
HashMap_new == [k \in {} |-> TRUE]

\* HashMap::insert
insert(map, key, value) ==
    [k \in DOMAIN map \cup {key} |-> IF k = key THEN value ELSE map[k]]

\* State::new
State_new ==
    [bool_state |-> HashMap_new, int_state |-> HashMap_new,
     uint_state |-> HashMap_new, string_state |-> HashMap_new]

\* State::reset (reset is the one of SmtpTransactionState)
State_reset(st) ==
    [bool_state |-> HashMap_new, int_state |-> HashMap_new,
     uint_state |-> HashMap_new, string_state |-> HashMap_new]

get_bool_default(st, key, default) ==
    IF key \in DOMAIN st.bool_state THEN st.bool_state[key] ELSE default

set_bool(st, key, value) ==
    [st EXCEPT !.bool_state = insert(st.bool_state, key, value)]

set_int(st, key, value) ==
    [st EXCEPT !.int_state = insert(st.int_state, key, value)]

set_uint(st, key, value) ==
    [st EXCEPT !.uint_state = insert(st.uint_state, key, value)]

set_string(st, key, value) ==
    [st EXCEPT !.string_state = insert(st.string_state, key, value)]

(***************************************************************************)
(* The MAIL command of server/commands/mail.rs: four middlewares, each     *)
(* given the argument of the command and the next middleware. next is what *)
(* the rest of the chain does with the same argument; ev is the answer of  *)
(* MailHandler::handle_sender_address. What a middleware does is a record  *)
(* of the middlewares entered, the reply lines written, the hook calls     *)
(* made, the texts given to Mailbox::parse, and how it ended.              *)
(***************************************************************************)

Done(reached, rs, cs, parsed, res) ==
    [reached |-> reached, replies |-> rs, calls |-> cs, parsed |-> parsed, res |-> res]

\* A middleware was entered before what o tells.
Entered(name, o) == [o EXCEPT !.reached = <<name>> \o o.reached]

\* check_state with "has_seen_ehlo" taken as seen when it is not set.
check_state_default_true(st, line, next) ==
    IF ~get_bool_default(st, "has_seen_ehlo", TRUE)
    THEN Done(<<"check_state">>, <<"503 Bad sequence of commands">>, <<>>, <<>>, "Ok")
    ELSE Entered("check_state", next)

check_state(st, line, next) ==
    IF ~get_bool_default(st, "has_seen_ehlo", FALSE)
    THEN Done(<<"check_state">>, <<"503 Bad sequence of commands">>, <<>>, <<>>, "Ok")
    ELSE Entered("check_state", next)

check_mailbox_format(line, next) ==
    IF ~(Len(line) < 2 \/ starts_with(line, <<"<">>) \/ line[Len(line)] = ">")
    THEN Done(<<"check_mailbox_format">>,
              <<"501 Invalid argument, format: '<email@example.com>'">>, <<>>, <<>>, "Ok")
    ELSE Entered("check_mailbox_format", next)

handle_no_sender(line, ev, next) ==
    IF line = <<"<", ">">>
    THEN Done(<<"handle_no_sender">>,
              IF ev THEN <<"250 OK">> ELSE <<"550 Mailbox not taken">>,
              <<Call("handle_sender_address", None, ev)>>, <<>>, "Ok")
    ELSE Entered("handle_no_sender", next)

\* line.slice(1, line.len() - 1) fails on a line of less than two bytes.
handle_sender(line, ev) ==
    IF Len(line) < 2
    THEN Done(<<"handle_sender">>, <<>>, <<>>, <<>>, "Panic")
    ELSE Bind(Bind(slice(line, 1, Len(line) - 1), parse),
              LAMBDA mailbox_res :
                  IF ~mailbox_res.ok
                  THEN Done(<<"handle_sender">>, <<reply_553(mailbox_res.err)>>, <<>>,
                            <<slice(line, 1, Len(line) - 1)>>, "Ok")
                  ELSE Done(<<"handle_sender">>,
                            IF ev THEN <<"250 OK">> ELSE <<"550 Mailbox not taken">>,
                            <<Call("handle_sender_address", Some(mailbox_res.val), ev)>>,
                            <<slice(line, 1, Len(line) - 1)>>, "Ok"))

\* The command that get returns, run on the argument of a MAIL FROM: line:
\* Command::middleware links each middleware to the one added after it.
get(st, line, ev) ==
    check_state(st, line,
        check_mailbox_format(line,
            handle_no_sender(line, ev,
                handle_sender(line, ev))))

\* A server constructed from config, with one connection accepted.
Init ==
    /\ Spawned({1})
    /\ server = Constructed(config, TRUE, TRUE)
    /\ applied = Idle
    /\ container = State_new

\* The callback of the table entry that a line selects, "none" if no entry.
callback_of(line) ==
    Bind(get_handler_for_line(handlers, line),
         LAMBDA h : IF h.some THEN handlers[h.val].callback ELSE "none")

\* The functions below tabulate the dispatch over the model's inputs, so that
\* TLC computes each case once.

Callbacks == {handlers[i].callback : i \in DOMAIN handlers}

\* callback_of on the lines of Lines.
callback_tab == [line \in Lines |-> callback_of(line)]

\* The lines of Lines by the callback they select.
lines_of == [cb \in Callbacks \cup {"none"} |-> {line \in Lines : callback_tab[line] = cb}]

\* The lines of Lines2 by the callback they select.
lines2_of == [cb \in Callbacks \cup {"none"} |-> lines_of[cb] \cap Lines2]

\* The table entry that a line of Lines selects.
entry_of == [line \in Lines \ lines_of["none"] |->
                handlers[get_handler_for_line(handlers, line).val]]

\* data_body_line on every transaction state, size within the limit (a pass
\* that goes above it is the last), body line and hook answer.
body_pass == [st \in TransactionStates, sz \in 0..MaxMessageSize,
              data_line \in BodyLines, ev \in BOOLEAN |->
                 data_body_line(st, sz, data_line, ev, config.max_message_size)]

\* handle_line on every transaction state, line of Lines and hook answer.
outcome_of == [st \in TransactionStates, line \in Lines, ev \in BOOLEAN |->
                  handle_line(handlers, st, line, ev, config.domain)]

\* The record of accepted commands after a line was answered.
progress_after(prog, cb, out) ==
    IF out.replies # <<"250 OK">> THEN prog
    ELSE IF cb \in {"handle_command_rset", "handle_command_data"} THEN <<>>
    ELSE IF cb \in {"handle_command_helo", "handle_command_mail", "handle_command_rcpt"}
            /\ (prog = <<>> \/ prog[Len(prog)] # cb)
    THEN Append(prog, cb)
    ELSE prog

\* The number of recipients of the transaction after a line was answered:
\* handle_command_rcpt accepted one more, or the state is no longer Rcpt.
recipients_after(n, cb, out) ==
    IF out.state # "Rcpt" THEN 0
    ELSE IF cb = "handle_command_rcpt" /\ out.replies = <<"250 OK">>
            /\ n <= MaxRecipients
    THEN n + 1
    ELSE n

\* Where the thread goes on when a handler, or the read of a line, has ended.
pc_after(res) ==
    CASE res = "Ok" -> "cmd"
      [] res = "Reading" -> "body"
      [] res \in {"Err", "Panic"} -> "closed"

\* handle_client: the connection hook, the greeting, then inner_loop with
\* the state Init.
HandleClient(c) ==
    /\ pc[c] = "new"
    /\ \E ev \in BOOLEAN :
        /\ pc' = [pc EXCEPT ![c] = IF ev THEN "cmd" ELSE "closed"]
        /\ replies' = [replies EXCEPT ![c] =
                          IF ev THEN <<"220 " \o config.domain>> ELSE <<>>]
        /\ calls' = [calls EXCEPT ![c] = <<Call("handle_connection", "peer", ev)>>]
    /\ state' = [state EXCEPT ![c] = "Init"]
    /\ UNCHANGED <<size, input, before, progress, body, parts, recipients, server,
                   applied, container>>

\* An inner_loop whose transaction state is one value shared by the threads.
Handled_shared_state(c, read, out) ==
    /\ pc' = [pc EXCEPT ![c] = pc_after(out.res)]
    /\ state' = [d \in Conns |-> out.state]
    /\ size' = [size EXCEPT ![c] = 0]
    /\ input' = [input EXCEPT ![c] = read]
    /\ replies' = [replies EXCEPT ![c] = out.replies]
    /\ calls' = [calls EXCEPT ![c] = out.calls]
    /\ before' = [before EXCEPT ![c] = state[c]]
    /\ progress' = [progress EXCEPT ![c] =
                       IF read.ok
                       THEN progress_after(progress[c], callback_tab[read.val], out)
                       ELSE progress[c]]
    /\ body' = [body EXCEPT ![c] = <<>>]
    /\ parts' = [parts EXCEPT ![c] = <<>>]
    /\ recipients' = [recipients EXCEPT ![c] =
                         IF read.ok
                         THEN recipients_after(recipients[c], callback_tab[read.val], out)
                         ELSE recipients[c]]
    /\ UNCHANGED <<server, applied, container>>

\* One pass of inner_loop: read_and_handle_command read `read` and ended with
\* the outcome out.
Handled(c, read, out) ==
    /\ pc' = [pc EXCEPT ![c] = pc_after(out.res)]
    /\ state' = [state EXCEPT ![c] = out.state]
    /\ size' = [size EXCEPT ![c] = 0]
    /\ input' = [input EXCEPT ![c] = read]
    /\ replies' = [replies EXCEPT ![c] = out.replies]
    /\ calls' = [calls EXCEPT ![c] = out.calls]
    /\ before' = [before EXCEPT ![c] = state[c]]
    /\ progress' = [progress EXCEPT ![c] =
                       IF read.ok
                       THEN progress_after(progress[c], callback_tab[read.val], out)
                       ELSE progress[c]]
    /\ body' = [body EXCEPT ![c] = <<>>]
    /\ parts' = [parts EXCEPT ![c] = <<>>]
    /\ recipients' = [recipients EXCEPT ![c] =
                         IF read.ok
                         THEN recipients_after(recipients[c], callback_tab[read.val], out)
                         ELSE recipients[c]]
    /\ UNCHANGED <<server, applied, container>>

\* The lines that select the callback cb, among those the clients send.
sent(cb) == IF Cardinality(Conns) > 1 THEN lines2_of[cb] ELSE lines_of[cb]

\* The body lines the clients send.
sent_in_body == IF Cardinality(Conns) > 1 THEN BodyLines2 ELSE BodyLines

\* A line that selects the table entry with callback cb, in a state the
\* entry allows: the handler runs.
Command(c, cb) ==
    /\ pc[c] = "cmd"
    /\ \E line \in sent(cb), ev \in BOOLEAN :
        /\ state_allowed(entry_of[line], state[c])
        /\ Handled(c, Ok(line), outcome_of[state[c], line, ev])

Helo(c) == Command(c, "handle_command_helo")

Mail(c) == Command(c, "handle_command_mail")

Rcpt(c) == Command(c, "handle_command_rcpt")

Data(c) == Command(c, "handle_command_data")

Rset(c) == Command(c, "handle_command_rset")

Vrfy(c) == Command(c, "handle_command_vrfy")

Expn(c) == Command(c, "handle_command_expn")

Help(c) == Command(c, "handle_command_help")

Noop(c) == Command(c, "handle_command_noop")

Quit(c) == Command(c, "handle_command_quit")

\* A line that selects a table entry in a state the entry does not allow.
BadSequence(c) ==
    /\ pc[c] = "cmd"
    /\ \E cb \in Callbacks, ev \in BOOLEAN :
       \E line \in sent(cb) :
        /\ ~state_allowed(entry_of[line], state[c])
        /\ Handled(c, Ok(line), outcome_of[state[c], line, ev])

\* A line that selects no table entry.
Unrecognized(c) ==
    /\ pc[c] = "cmd"
    /\ \E line \in sent("none"), ev \in BOOLEAN :
        /\ Handled(c, Ok(line), outcome_of[state[c], line, ev])

\* input.read_line() fails in inner_loop: the line was too long
\* (InvalidInput), or the transport failed.
ReadError(c) ==
    /\ pc[c] = "cmd"
    /\ \E kind \in {"InvalidInput", "Other"} :
        Handled(c, Err(kind), handle_read_error(state[c], kind))

\* One pass of the body loop of handle_command_data.
BodyLine(c) ==
    /\ pc[c] = "body"
    /\ Len(body[c]) < MaxBodyLines
    /\ \E data_line \in sent_in_body, ev \in BOOLEAN :
        LET r == body_pass[state[c], size[c], data_line, ev]
        IN  /\ pc' = [pc EXCEPT ![c] = pc_after(r.out.res)]
            /\ state' = [state EXCEPT ![c] = r.out.state]
            /\ size' = [size EXCEPT ![c] = r.size]
            /\ input' = [input EXCEPT ![c] = Ok(data_line)]
            /\ replies' = [replies EXCEPT ![c] = r.out.replies]
            /\ calls' = [calls EXCEPT ![c] = r.out.calls]
            /\ before' = [before EXCEPT ![c] = state[c]]
            /\ progress' = [progress EXCEPT ![c] =
                               progress_after(progress[c], "handle_command_data", r.out)]
            /\ body' = [body EXCEPT ![c] = Append(body[c], data_line)]
            /\ parts' = [parts EXCEPT ![c] =
                            IF r.out.calls[1].hook = "handle_body_part"
                            THEN Append(parts[c], data_line) ELSE parts[c]]
            /\ recipients' = [recipients EXCEPT ![c] =
                                 recipients_after(recipients[c], "handle_command_data",
                                                  r.out)]
            /\ UNCHANGED <<server, applied, container>>

\* input.read_line() fails in the body loop: handle_command_data returns
\* Err(()), which inner_loop unwraps.
BodyReadError(c) ==
    /\ pc[c] = "body"
    /\ pc' = [pc EXCEPT ![c] = pc_after("Err")]
    /\ input' = [input EXCEPT ![c] = Err("Other")]
    /\ replies' = [replies EXCEPT ![c] = <<>>]
    /\ calls' = [calls EXCEPT ![c] = <<>>]
    /\ before' = [before EXCEPT ![c] = state[c]]
    /\ UNCHANGED <<state, size, progress, body, parts, recipients, server, applied,
                 container>>

Next ==
    \/ \E c \in Conns : HandleClient(c)
    \/ \E c \in Conns : Helo(c)
    \/ \E c \in Conns : Mail(c)
    \/ \E c \in Conns : Rcpt(c)
    \/ \E c \in Conns : Data(c)
    \/ \E c \in Conns : Rset(c)
    \/ \E c \in Conns : Vrfy(c)
    \/ \E c \in Conns : Expn(c)
    \/ \E c \in Conns : Help(c)
    \/ \E c \in Conns : Noop(c)
    \/ \E c \in Conns : Quit(c)
    \/ \E c \in Conns : BadSequence(c)
    \/ \E c \in Conns : Unrecognized(c)
    \/ \E c \in Conns : ReadError(c)
    \/ \E c \in Conns : BodyLine(c)
    \/ \E c \in Conns : BodyReadError(c)

Spec == Init /\ [][Next]_vars

(***************************************************************************)
(* Two connections served at once: SmtpServer::run has accepted both and   *)
(* spawned a thread for each, with its own clone of the event handler.     *)
(***************************************************************************)

Init2 ==
    /\ Spawned({1, 2})
    /\ server = Constructed(config, TRUE, TRUE)
    /\ applied = Idle
    /\ container = State_new

Spec2 == Init2 /\ [][Next]_vars

(***************************************************************************)
(* The construction of a server: SmtpServer::new on a configuration, then  *)
(* SmtpServer::run on the server it returned.                              *)
(***************************************************************************)

\* No server constructed yet, no connection.
InitNew ==
    /\ Spawned({})
    /\ \E cfg \in Configs :
          server = [config |-> cfg, bind_ok |-> TRUE, listen_ok |-> TRUE, result |-> None]
    /\ applied = Idle
    /\ container = State_new

\* SmtpServer::new
New ==
    /\ ~server.result.some
    /\ \E bind_ok, listen_ok \in BOOLEAN :
          server' = Constructed(server.config, bind_ok, listen_ok)
    /\ UNCHANGED << pc, state, size, input, replies, calls, before, progress, body,
                    parts, recipients, applied, container >>

\* SmtpServer::run, on the server that new returned: the first connection
\* is accepted and its thread spawned.
Run ==
    /\ server.result.some
    /\ server.result.val.ok
    /\ Conns = {}
    /\ pc' = (1 :> "new")
    /\ state' = (1 :> "Init")
    /\ size' = (1 :> 0)
    /\ input' = (1 :> Err("NotRead"))
    /\ replies' = (1 :> <<>>)
    /\ calls' = (1 :> <<>>)
    /\ before' = (1 :> "Init")
    /\ progress' = (1 :> <<>>)
    /\ body' = (1 :> <<>>)
    /\ parts' = (1 :> <<>>)
    /\ recipients' = (1 :> 0)
    /\ UNCHANGED <<server, applied, container>>

NextNew ==
    \/ New
    \/ Run

SpecNew == InitNew /\ [][NextNew]_vars

(***************************************************************************)
(* The grammar called on its own: Mailbox::parse on an address, and the    *)
(* scanners get_domain_len and get_dot_string_len on a string, as the unit *)
(* tests of mailbox.rs and utils.rs call them.                             *)
(***************************************************************************)

\* String::from_char(n, c)
from_char(n, c) == [i \in 1..n |-> c]

\* The spellings of the word w in upper-case and lower-case letters.
RECURSIVE Spellings(_)
Spellings(w) ==
    IF w = <<>> THEN {<<>>}
    ELSE {<<c>> \o rest : c \in {to_ascii_upper(w[1]), to_ascii_lower(w[1])},
                         rest \in Spellings(Tail(w))}

\* Local parts: dot-strings and quoted strings in both letter cases, of 63 to
\* 66 characters, one with a space, and none.
Locals ==
    { <<"a">>, <<"A">>, <<"t">>, <<"r", "u", "s", "t">>, <<"R", "u", "s", "t">>,
      <<"r", "u", "s", "t", ".", "i", "s">>, <<"a", ".", "B">>,
      <<"\"", "H", "i", "\"">>, <<"\"", "h", "e", "l", "l", "o", "\"">>,
      <<"t", " ">>, <<>> }
    \cup {from_char(n, "a") : n \in 63..66}
    \cup {from_char(64, "A")}

\* Source routes, none first.
Routes == { <<>>, <<"@", "a", ":">>, <<"@">> \o from_char(251, "a") \o <<":">> }

\* Foreign parts: domains in both letter cases, of 248 to 257 characters, an
\* address literal, texts that are no domain, and none.
Foreigns ==
    { <<"b">>, <<"o", "k">>, <<"t", ".", "c", "o", "m">>, <<"C", ".", "d">>,
      <<"[", "1", "2", "7", ".", "0", ".", "0", ".", "1", "]">>,
      <<"t", ".", "c", "o", "m", "{">>, <<"{", "}">>, <<>> }
    \cup {from_char(n, "a") : n \in {189, 190, 248, 249, 250, 254, 255, 256, 257}}
    \cup {from_char(250, "a") \o <<"{">>}

\* The texts given to Mailbox::parse: route, local part, '@' and foreign
\* part; a text without '@'; every spelling of postmaster at one domain.
Addresses ==
    {r \o l \o <<"@">> \o d : r \in Routes, l \in Locals, d \in Foreigns}
    \cup {r \o l : r \in Routes, l \in Locals}
    \cup {l \o <<" ">> \o d : l \in {<<"r", "u", "s", "t">>}, d \in Foreigns}
    \cup {w \o <<"@", "o", "k">> : w \in Spellings(postmaster)}

\* The length of the strings given to the scanners.
MaxScanLen == 5

\* The strings given to the scanners: letters, the dot, the dash and a
\* character of no domain or dot-string.
Scanned ==
    UNION {[1..n -> {"a", "B", ".", "-", " "}] : n \in 0..MaxScanLen}
    \cup { <<"a", ".", "b", ".">>, <<"a", ".", "b">> }

\* The texts that get_source_route_len is applied to: every text of at most
\* MaxRouteLen characters among those a route is made of, and the texts of
\* test_get_source_route_len.
MaxRouteLen == 6

RouteTexts ==
    UNION {[1..n -> {"@", "a", ".", ",", ":"}] : n \in 0..MaxRouteLen}
    \cup { <<"@", "r", "u", "s", "t", ",">>,
           <<"@", "r", "u", "s", "t">>,
           <<"@", ",", "@", ":">>,
           <<"@", "r", "u", "s", "t", ",", "@", "t", "r", "o", "l", "l">>,
           <<"@", "r", "u", "s", "t", ",", "@", "t", "r", "o", "{", "l", "l", ":">>,
           <<"@", "r", "u", "s", "t", ",", "@", "t", "r", "o", "l", "l", ":">>,
           <<"@", "r", "u", "s", "t", ".", "i", "s", ",", "@", "t", "r", "o", "l", "l", ":">> }

\* The texts that simplify_quoted_string is applied to: the quoted-strings
\* with at most MaxQuotedLen characters between the quotes, among a letter,
\* a dot, a space, the backslash and the double quote.
MaxQuotedLen == 4

QuotedTexts ==
    { s \in { <<"\"">> \o t \o <<"\"">> :
                t \in UNION {[1..n -> {"a", ".", " ", "\\", "\""}] : n \in 0..MaxQuotedLen} } :
        get_quoted_string_len(s) = Len(s) }

InitPure ==
    /\ Spawned({})
    /\ server = [config |-> config, bind_ok |-> TRUE, listen_ok |-> TRUE, result |-> None]
    /\ container = State_new
    /\ \/ \E s \in Addresses : applied = [f |-> "parse", arg |-> s, res |-> None]
       \/ \E s \in Scanned : applied = [f |-> "get_domain_len", arg |-> s, res |-> None]
       \/ \E s \in Scanned : applied = [f |-> "get_dot_string_len", arg |-> s, res |-> None]
       \/ \E s \in RouteTexts :
             applied = [f |-> "get_source_route_len", arg |-> s, res |-> None]
       \/ \E s \in QuotedTexts :
             applied = [f |-> "simplify_quoted_string", arg |-> s, res |-> None]

\* A call of f that has not returned returns res.
Returns(f, res) ==
    /\ applied.f = f
    /\ ~applied.res.some
    /\ applied' = [applied EXCEPT !.res = Some(res)]
    /\ UNCHANGED << pc, state, size, input, replies, calls, before, progress, body,
                    parts, recipients, server, container >>

ApplyParse == Returns("parse", parse(applied.arg))

ApplyDomainLen == Returns("get_domain_len", get_domain_len(applied.arg))

ApplyDotStringLen == Returns("get_dot_string_len", get_dot_string_len(applied.arg))

ApplySourceRouteLen ==
    Returns("get_source_route_len", get_source_route_len(applied.arg))

ApplySimplify ==
    Returns("simplify_quoted_string", simplify_quoted_string(applied.arg))

NextPure ==
    \/ ApplyParse
    \/ ApplyDomainLen
    \/ ApplyDotStringLen
    \/ ApplySourceRouteLen
    \/ ApplySimplify

SpecPure == InitPure /\ [][NextPure]_vars

(***************************************************************************)
(* The MAIL command of server/commands/mail.rs on one connection: the      *)
(* commands of the connection set values in its State and reset it, and    *)
(* MAIL FROM: lines are given to the command that get returns.             *)
(***************************************************************************)

\* The arguments of the MAIL FROM: lines: none, one byte, the null path, a
\* mailbox in brackets (one with a source route, one with a local part in
\* capitals), texts that lack one bracket or both, and brackets around a
\* text that is no mailbox.
MailArgs ==
    { <<>>, <<"<">>, <<">">>, <<"<", ">">>,
      <<"<", "a", "@", "b", ">">>, <<"<", "A", "@", "b", ">">>,
      <<"<", "@", "a", ":", "a", "@", "b", ">">>,
      <<"<", "a", "@", "b">>, <<"a", "@", "b", ">">>, <<"a", "@", "b">>,
      <<"<", "a", ">">>, <<"a", "b">> }

InitMail ==
    /\ Spawned({})
    /\ server = [config |-> config, bind_ok |-> TRUE, listen_ok |-> TRUE, result |-> None]
    /\ applied = Idle
    /\ container = State_new

\* A command of the connection sets a value in the State: the key that
\* check_state reads or another one.
Set ==
    /\ \/ \E key \in {"has_seen_ehlo", "k"}, value \in BOOLEAN :
             container' = set_bool(container, key, value)
       \/ container' = set_int(container, "k", 0 - 1)
       \/ container' = set_uint(container, "k", 1)
       \/ container' = set_string(container, "k", "v")
    /\ UNCHANGED << pc, state, size, input, replies, calls, before, progress, body,
                    parts, recipients, server, applied >>

Reset ==
    /\ container' = State_reset(container)
    /\ UNCHANGED << pc, state, size, input, replies, calls, before, progress, body,
                    parts, recipients, server, applied >>

\* A MAIL FROM: line: the command runs on its argument, in the State as it
\* is.
MailLine ==
    /\ \E line \in MailArgs, ev \in BOOLEAN :
          applied' = [f |-> "get",
                      arg |-> [state |-> container, line |-> line],
                      res |-> Some(get(container, line, ev))]
    /\ UNCHANGED << pc, state, size, input, replies, calls, before, progress, body,
                    parts, recipients, server, container >>

NextMail ==
    \/ Set
    \/ Reset
    \/ MailLine

SpecMail == InitMail /\ [][NextMail]_vars

(***************************************************************************)
(* What the properties below speak of: the last line a connection read     *)
(* where a command is expected, and what the server did with it.           *)
(***************************************************************************)

\* The connection's last read returned a line, read by inner_loop (and not
\* by the body loop of DATA).
CommandRead(c) == input[c].ok /\ body[c] = <<>>

\* The callback that line selects, and the text after the command word.
LastCallback(c) == callback_tab[input[c].val]

LastRest(c) == slice_from(input[c].val, Len(entry_of[input[c].val].command_start))

\* The last read ended the body of a DATA command: the loop left at its break.
BodyEnded(c) ==
    /\ body[c] # <<>>
    /\ calls[c] # <<>>
    /\ calls[c][1].hook = "handle_body_end"

\* ... and the command was completed: handle_body_end answered Ok.
DataCompleted(c) == BodyEnded(c) /\ calls[c][1].ok

MailPrefix == <<"M", "A", "I", "L", " ", "F", "R", "O", "M", ":">>

RcptPrefix == <<"R", "C", "P", "T", " ", "T", "O", ":">>

(***************************************************************************)
(* Properties of the dispatch and of the transaction state.                *)
(***************************************************************************)

\* C1: a command line that selects a table entry in a transaction state the
\* entry does not allow is answered "503 Bad sequence of commands" and nothing
\* else: no hook of the event handler is called, the transaction state is what
\* it was, and the connection goes on to its next command, whatever follows
\* the command word.
C1_BadSequence ==
    \A c \in Conns :
        ( /\ CommandRead(c)
          /\ LastCallback(c) # "none"
          /\ before[c] \notin entry_of[input[c].val].allowed_states )
        => /\ replies[c] = <<"503 Bad sequence of commands">>
           /\ calls[c] = <<>>
           /\ state[c] = before[c]
           /\ pc[c] = "cmd"

\* MAIL FROM: with an argument that has no brackets, in Init, was answered 503.
C1_Witness ==
    \E c \in Conns :
        /\ CommandRead(c)
        /\ input[c].val = MailPrefix \o <<"a", ".", "b">>
        /\ before[c] = "Init"
        /\ replies[c] = <<"503 Bad sequence of commands">>

\* C2: the transaction state of a connection changes only from Init to Helo
\* at an accepted HELO/EHLO, from Helo to Mail at an accepted MAIL, from Mail
\* to Rcpt at an accepted RCPT, from Rcpt to Init when DATA is completed, and
\* from any state to Init at a RSET without argument; VRFY, EXPN, HELP, NOOP,
\* an unrecognized line and every command that is not answered 250 OK leave
\* it as it was.
C2_StateSteps ==
    \A c \in Conns :
        /\ state[c] # before[c]
           => \/ /\ CommandRead(c)
                 /\ replies[c] = <<"250 OK">>
                 /\ \/ /\ LastCallback(c) = "handle_command_helo"
                       /\ before[c] = "Init" /\ state[c] = "Helo"
                    \/ /\ LastCallback(c) = "handle_command_mail"
                       /\ before[c] = "Helo" /\ state[c] = "Mail"
                    \/ /\ LastCallback(c) = "handle_command_rcpt"
                       /\ before[c] = "Mail" /\ state[c] = "Rcpt"
                    \/ /\ LastCallback(c) = "handle_command_rset"
                       /\ LastRest(c) = <<>> /\ state[c] = "Init"
              \/ /\ DataCompleted(c)
                 /\ replies[c] = <<"250 OK">>
                 /\ before[c] = "Rcpt" /\ state[c] = "Init"
        /\ ( /\ CommandRead(c)
             /\ LastCallback(c) \in {"handle_command_vrfy", "handle_command_expn",
                                     "handle_command_help", "handle_command_noop",
                                     "none"} )
           => state[c] = before[c]
        /\ replies[c] # <<"250 OK">> => state[c] = before[c]
        /\ ( /\ CommandRead(c)
             /\ LastCallback(c) = "handle_command_rcpt"
             /\ before[c] = "Rcpt" )
           => state[c] = "Rcpt"

\* A DATA command was completed: the state went from Rcpt to Init.
C2_Witness ==
    \E c \in Conns :
        /\ DataCompleted(c)
        /\ before[c] = "Rcpt"
        /\ state[c] = "Init"
        /\ replies[c] = <<"250 OK">>

\* C3: in every reachable state of a connection, the state Helo means that a
\* HELO/EHLO was accepted since the transaction was last reset, Mail that a
\* MAIL was accepted after that HELO/EHLO, Rcpt that a RCPT was accepted after
\* that MAIL; and right after a RSET without argument, and right after a
\* completed DATA, the state is Init.
C3_Progress ==
    \A c \in Conns :
        /\ state[c] = "Init" => progress[c] = <<>>
        /\ state[c] = "Helo" => progress[c] = <<"handle_command_helo">>
        /\ state[c] = "Mail" =>
               progress[c] = <<"handle_command_helo", "handle_command_mail">>
        /\ state[c] = "Rcpt" =>
               progress[c] = <<"handle_command_helo", "handle_command_mail",
                               "handle_command_rcpt">>
        /\ state[c] # "Data"
        /\ ( /\ CommandRead(c)
             /\ LastCallback(c) = "handle_command_rset"
             /\ LastRest(c) = <<>> )
           => state[c] = "Init"
        /\ DataCompleted(c) => state[c] = "Init"

\* A second RCPT was accepted: the state is Rcpt after HELO, MAIL and RCPT.
C3_Witness ==
    \E c \in Conns :
        /\ CommandRead(c)
        /\ LastCallback(c) = "handle_command_rcpt"
        /\ before[c] = "Rcpt"
        /\ state[c] = "Rcpt"
        /\ replies[c] = <<"250 OK">>

\* The lines of Lines that select the RSET entry.
RsetLines == lines_of["handle_command_rset"]

\* C4: RSET without argument sets the transaction state to Init and is
\* answered 250 OK in each of the states Init, Helo, Mail, Rcpt and Data; RSET
\* followed by any text is answered "501 No arguments allowed" and leaves the
\* state as it was. The first conjunct is the dispatch on all five states (no
\* connection is ever in Data), the second what a connection did.
C4_Rset ==
    /\ \A st \in TransactionStates, line \in RsetLines, ev \in BOOLEAN :
          outcome_of[st, line, ev] =
              IF Len(line) = Len(entry_of[line].command_start)
              THEN Outcome("Init", <<"250 OK">>, <<>>, "Ok")
              ELSE Outcome(st, <<"501 No arguments allowed">>, <<>>, "Ok")
    /\ \A c \in Conns :
          (CommandRead(c) /\ LastCallback(c) = "handle_command_rset")
          => /\ pc[c] = "cmd"
             /\ calls[c] = <<>>
             /\ IF LastRest(c) = <<>>
                THEN state[c] = "Init" /\ replies[c] = <<"250 OK">>
                ELSE state[c] = before[c]
                     /\ replies[c] = <<"501 No arguments allowed">>

\* RSET without argument, after an accepted RCPT, was answered 250 OK and set
\* the state to Init.
C4_Witness ==
    \E c \in Conns :
        /\ CommandRead(c)
        /\ input[c].val = <<"R", "S", "E", "T">>
        /\ before[c] = "Rcpt"
        /\ state[c] = "Init"
        /\ replies[c] = <<"250 OK">>

(***************************************************************************)
(* Properties of HELO/EHLO, MAIL and RCPT.                                 *)
(***************************************************************************)

Bracketed(arg) == Len(arg) >= 2 /\ arg[1] = "<" /\ arg[Len(arg)] = ">"

Inner(arg) == slice(arg, 1, Len(arg) - 1)

\* C6: MAIL FROM: in the state Helo with an argument that is not wrapped in
\* angle brackets is answered 501; with <>, handle_sender_address is called
\* with None; with any other bracketed argument, the text between the
\* brackets is parsed: an error is answered "553 Email address invalid:" and
\* its reason and the hook is not called, else the hook is called with the
\* Mailbox. The state becomes Mail and the answer is 250 OK exactly when the
\* hook answered Ok; a refusal is answered 550; after 501, 553 and 550 the
\* state is Helo.
C6_Mail ==
    \A c \in Conns :
        ( /\ CommandRead(c)
          /\ LastCallback(c) = "handle_command_mail"
          /\ before[c] = "Helo" )
        => /\ pc[c] = "cmd"
           /\ ~Bracketed(LastRest(c)) =>
                 /\ replies[c] =
                       <<"501 Email address invalid, must start with < and end with >">>
                 /\ calls[c] = <<>>
           /\ LastRest(c) = <<"<", ">">> =>
                 /\ Len(calls[c]) = 1
                 /\ calls[c][1].hook = "handle_sender_address"
                 /\ calls[c][1].arg = None
           /\ (Bracketed(LastRest(c)) /\ LastRest(c) # <<"<", ">">>) =>
                 IF parse(Inner(LastRest(c))).ok
                 THEN /\ Len(calls[c]) = 1
                      /\ calls[c][1].hook = "handle_sender_address"
                      /\ calls[c][1].arg = Some(parse(Inner(LastRest(c))).val)
                 ELSE /\ replies[c] =
                             <<"553 Email address invalid: "
                                  \o parse(Inner(LastRest(c))).err>>
                      /\ calls[c] = <<>>
           /\ (state[c] = "Mail" /\ replies[c] = <<"250 OK">>)
                 <=> (calls[c] # <<>> /\ calls[c][1].ok)
           /\ (calls[c] # <<>> /\ ~calls[c][1].ok) =>
                 replies[c] \in {<<"550 Mailnot taken">>, <<"550 Mailnot available">>}
           /\ replies[c] # <<"250 OK">> => state[c] = "Helo"
           /\ state[c] \in {"Helo", "Mail"}

\* MAIL FROM:<A@b> was refused by the event handler, which received the
\* parsed Mailbox: the state is still Helo.
C6_Witness ==
    \E c \in Conns :
        /\ CommandRead(c)
        /\ input[c].val = MailPrefix \o <<"<", "A", "@", "b", ">">>
        /\ before[c] = "Helo"
        /\ state[c] = "Helo"
        /\ calls[c] = <<Call("handle_sender_address",
                             Some(parse(<<"A", "@", "b">>).val), FALSE)>>
        /\ replies[c] = <<"550 Mailnot taken">>

\* C7: RCPT TO: in the state Mail or Rcpt sets the state to Rcpt and is
\* answered 250 OK exactly when its argument is in brackets, parses as a
\* Mailbox and handle_receiver_address answers Ok; a parse error is answered
\* 553, a refusal 550, and both leave the state as it was: Mail at a first
\* RCPT, so that a DATA that follows is answered 503, Rcpt at a later one.
C7_Rcpt ==
    \A c \in Conns :
        /\ ( /\ CommandRead(c)
             /\ LastCallback(c) = "handle_command_rcpt"
             /\ before[c] \in {"Mail", "Rcpt"} )
           => LET arg == LastRest(c)
                  bracketed == Len(arg) > 0 /\ arg[1] = "<" /\ arg[Len(arg)] = ">"
                  parsed == bracketed /\ parse(Inner(arg)).ok
                  accepted == /\ parsed
                              /\ calls[c] = <<Call("handle_receiver_address",
                                                   parse(Inner(arg)).val, TRUE)>>
              IN  /\ (state[c] = "Rcpt" /\ replies[c] = <<"250 OK">>) <=> accepted
                  /\ ~accepted => state[c] = before[c]
                  /\ (bracketed /\ ~parsed) =>
                        /\ replies[c] = <<"553 Email address invalid: "
                                             \o parse(Inner(arg)).err>>
                        /\ calls[c] = <<>>
                  /\ (parsed /\ ~accepted) =>
                        /\ replies[c] = <<"550 Mailnot available">>
                        /\ calls[c] = <<Call("handle_receiver_address",
                                             parse(Inner(arg)).val, FALSE)>>
        /\ ( /\ CommandRead(c)
             /\ LastCallback(c) = "handle_command_data"
             /\ before[c] = "Mail" )
           => replies[c] = <<"503 Bad sequence of commands">> /\ state[c] = "Mail"

\* A first RCPT TO:<A@b> was refused by the event handler: the state is
\* still Mail.
C7_Witness ==
    \E c \in Conns :
        /\ CommandRead(c)
        /\ input[c].val = RcptPrefix \o <<"<", "A", "@", "b", ">">>
        /\ before[c] = "Mail"
        /\ state[c] = "Mail"
        /\ replies[c] = <<"550 Mailnot available">>

(***************************************************************************)
(* Properties of the body of DATA.                                         *)
(***************************************************************************)

\* The cumulative length of the lines ls.
RECURSIVE TotalLen(_)
TotalLen(ls) == IF ls = <<>> THEN 0 ELSE Len(ls[1]) + TotalLen(Tail(ls))

Dot == <<".">>

\* C8: while the body of DATA is read, a line that is exactly "." ends the
\* body only if a body line was read before it; a "." that comes as the very
\* first body line is passed to handle_body_part as data and does not end the
\* body.
C8_FirstDot ==
    \A c \in Conns :
        /\ BodyEnded(c) => /\ Len(body[c]) >= 2
                           /\ body[c][Len(body[c])] = Dot
                           /\ parts[c] # <<>>
        /\ (body[c] = <<Dot>> /\ input[c].ok) =>
              /\ parts[c] = <<Dot>>
              /\ Len(calls[c]) = 1
              /\ calls[c][1].hook = "handle_body_part"
              /\ calls[c][1].arg = Dot
              /\ calls[c][1].ok => /\ pc[c] = "body"
                                   /\ state[c] = "Rcpt"
                                   /\ replies[c] = <<>>

\* The first body line was ".": it went to handle_body_part and the body
\* goes on.
C8_Witness ==
    \E c \in Conns :
        /\ body[c] = <<Dot>>
        /\ parts[c] = <<Dot>>
        /\ pc[c] = "body"

\* The body read so far is some body lines, none of them ".", of a cumulative
\* length within max_message_size, and then a lone "."; and the hook called
\* on that "." answered Ok.
LinesThenDot(c) ==
    /\ Len(body[c]) >= 2
    /\ body[c][Len(body[c])] = Dot
    /\ \A i \in 1..(Len(body[c]) - 1) : body[c][i] # Dot
    /\ TotalLen(SubSeq(body[c], 1, Len(body[c]) - 1)) <= config.max_message_size
    /\ calls[c] # <<>>
    /\ calls[c][1].ok

\* C9: when an accepted DATA is followed by one or more body lines, none of
\* them ".", empty lines among them or not, of a cumulative length within
\* max_message_size, and then by a lone ".", the event handler has received
\* every one of these lines through handle_body_part in the order sent, then
\* handle_body_end; the lone "." was not passed on; the state is Init and the
\* answer is 250 OK.
C9_BodyCompleted ==
    \A c \in Conns :
        LinesThenDot(c)
        => /\ calls[c] = <<Call("handle_body_end", <<>>, TRUE)>>
           /\ parts[c] = SubSeq(body[c], 1, Len(body[c]) - 1)
           /\ state[c] = "Init"
           /\ replies[c] = <<"250 OK">>
           /\ pc[c] = "cmd"

\* C10: in the body of DATA, as soon as the cumulative length of the body
\* lines is above max_message_size, and not when it is equal to it, the answer
\* is "552 Too much mail data, max <N> bytes" with N = max_message_size;
\* handle_body_end is not called for that body, the transaction state is
\* still Rcpt and the connection goes on to its next command.
C10_TooMuchData ==
    \A c \in Conns :
        ( /\ body[c] # <<>>
          /\ calls[c] # <<>>
          /\ calls[c][1].hook = "handle_body_part"
          /\ calls[c][1].ok )
        => /\ size[c] = TotalLen(parts[c])
           /\ Len(calls[c]) = 1
           /\ TotalLen(SubSeq(parts[c], 1, Len(parts[c]) - 1)) <= config.max_message_size
           /\ IF size[c] > config.max_message_size
              THEN /\ replies[c] = <<"552 Too much mail data, max "
                                       \o ToString(config.max_message_size) \o " bytes">>
                   /\ state[c] = "Rcpt"
                   /\ before[c] = "Rcpt"
                   /\ pc[c] = "cmd"
              ELSE /\ replies[c] = <<>>
                   /\ state[c] = "Rcpt"
                   /\ pc[c] = "body"

\* A body went above max_message_size: 552 was sent, the state is Rcpt and
\* the connection reads its next command.
C10_Witness ==
    \E c \in Conns :
        /\ body[c] # <<>>
        /\ size[c] > config.max_message_size
        /\ replies[c] = <<"552 Too much mail data, max "
                            \o ToString(config.max_message_size) \o " bytes">>
        /\ state[c] = "Rcpt"
        /\ pc[c] = "cmd"

(***************************************************************************)
(* Properties of the dispatch: the choice of the handler, unrecognized     *)
(* lines, QUIT, read errors.                                               *)
(***************************************************************************)

\* Whether the prefix p equals the first characters of the line, letter case
\* apart; a prefix longer than the line does not.
PrefixOf(p, line) ==
    /\ Len(p) <= Len(line)
    /\ \A k \in 1..Len(p) : to_ascii_upper(line[k]) = p[k]

\* The first entry of the table hs, in the order of the table, whose prefix
\* is a prefix of the line in that sense.
FirstMatch(hs, line) ==
    LET found == {i \in DOMAIN hs : PrefixOf(hs[i].command_start, line)}
    IN  IF found = {} THEN None
        ELSE Some(CHOOSE i \in found : \A j \in found : i <= j)

\* Two tables whose prefixes overlap, one the other in reverse, and lines
\* that two of their entries match.
OverlapTable ==
    << SmtpHandler(<<"H", "E", "L", "P">>, AllStates, "handle_command_help"),
       SmtpHandler(<<"H", "E">>, AllStates, "handle_command_noop"),
       SmtpHandler(<<"H", "E", "L", "P", " ", "M", "E">>, AllStates, "handle_command_vrfy") >>

OverlapTableReversed == [i \in 1..3 |-> OverlapTable[4 - i]]

OverlapLines ==
    { <<"H", "E", "L", "P">>, <<"h", "e", "l", "p", " ", "m", "e">>, <<"h", "E">>,
      <<"H">>, <<"H", "e", "l", "l", "o">> }

\* C11: the dispatcher selects the first entry of the table, in the order of
\* the table, whose prefix equals the first characters of the line, letter
\* case apart, an entry whose prefix is longer than the line being skipped;
\* lines that differ in the letter case of the command word only have the
\* same outcome; the handler receives exactly the text after the prefix. The
\* first conjunct is the choice on two tables with overlapping prefixes, the
\* second what a connection did with the line it read.
C11_Dispatch ==
    /\ \A hs \in {OverlapTable, OverlapTableReversed}, line \in OverlapLines :
          get_handler_for_line(hs, line) = FirstMatch(hs, line)
    /\ \A c \in Conns :
          CommandRead(c) =>
             LET line == input[c].val
                 first == FirstMatch(handlers, line)
             IN  /\ get_handler_for_line(handlers, line) = first
                 /\ first.some =>
                       LET h == handlers[first.val]
                           rest == SubSeq(line, Len(h.command_start) + 1, Len(line))
                           upper == h.command_start \o rest
                       IN  /\ \E ev \in BOOLEAN :
                                 /\ state[c] = outcome_of[before[c], upper, ev].state
                                 /\ replies[c] = outcome_of[before[c], upper, ev].replies
                                 /\ calls[c] = outcome_of[before[c], upper, ev].calls
                           /\ ( /\ h.callback = "handle_command_helo"
                                /\ calls[c] # <<>> )
                              => calls[c][1].arg = rest

\* "helo a.b" was accepted as HELO: handle_domain received "a.b".
C11_Witness ==
    \E c \in Conns :
        /\ CommandRead(c)
        /\ input[c].val = <<"h", "e", "l", "o", " ", "a", ".", "b">>
        /\ calls[c] = <<Call("handle_domain", <<"a", ".", "b">>, TRUE)>>
        /\ state[c] = "Helo"
        /\ replies[c] = <<"250 OK">>

\* C12: a line that no entry of the table matches, a line shorter than every
\* prefix included, is answered "500 Command unrecognized" in any state;
\* the state is unchanged, no hook is called and the connection goes on
\* reading commands.
C12_Unrecognized ==
    \A c \in Conns :
        ( /\ CommandRead(c)
          /\ \A i \in DOMAIN handlers :
                ~PrefixOf(handlers[i].command_start, input[c].val) )
        => /\ replies[c] = <<"500 Command unrecognized">>
           /\ state[c] = before[c]
           /\ calls[c] = <<>>
           /\ pc[c] = "cmd"

\* "HELO" without the space was read after MAIL and answered 500.
C12_Witness ==
    \E c \in Conns :
        /\ CommandRead(c)
        /\ input[c].val = <<"H", "E", "L", "O">>
        /\ before[c] = "Mail"
        /\ state[c] = "Mail"
        /\ replies[c] = <<"500 Command unrecognized">>
        /\ pc[c] = "cmd"

\* What the model keeps of connection c.
conn(c) ==
    << pc[c], state[c], size[c], input[c], replies[c], calls[c], before[c],
       progress[c], body[c], parts[c], recipients[c] >>

\* C13: a line that starts with QUIT, in any state, is answered with "221"
\* and the configured domain, and this is the last reply on the connection:
\* the dispatch loop ends, and nothing is read or answered on the connection
\* afterwards.
C13_Quit ==
    /\ [](\A c \in Conns :
            ( /\ CommandRead(c)
              /\ PrefixOf(<<"Q", "U", "I", "T">>, input[c].val) )
            => /\ replies[c] = <<"221 " \o config.domain>>
               /\ calls[c] = <<>>
               /\ pc[c] = "closed")
    /\ [][\A c \in Conns : pc[c] = "closed" => conn(c)' = conn(c)]_vars

\* QUIT was read after RCPT and answered; the connection is closed.
C13_Witness ==
    \E c \in Conns :
        /\ CommandRead(c)
        /\ input[c].val = <<"Q", "U", "I", "T">>
        /\ before[c] = "Rcpt"
        /\ replies[c] = <<"221 mx.example.org">>
        /\ pc[c] = "closed"

\* C14: a command line longer than max_line_size is answered "500 Command
\* line too long, max <N> bytes" with N the configured max_line_size; the
\* state is unchanged and the connection goes on reading commands.
C14_LineTooLong ==
    \A c \in Conns :
        input[c] = Err("InvalidInput")
        => /\ replies[c] = << "500 Command line too long, max "
                                \o ToString(config.max_line_size) \o " bytes" >>
           /\ state[c] = before[c]
           /\ pc[c] = "cmd"

\* An argument of MAIL FROM: or RCPT TO: that is not an address in angle
\* brackets: the brackets are missing (the empty and the one-character
\* argument are such), or the text between them is not a mailbox. The null
\* reverse-path <> is an argument of MAIL FROM:.
Malformed(cb, arg) ==
    /\ ~(cb = "handle_command_mail" /\ arg = <<"<", ">">>)
    /\ \/ ~Bracketed(arg)
       \/ ~parse(Inner(arg)).ok

\* C15: no malformed command argument ends a connection: a MAIL FROM: or
\* RCPT TO: whose argument is not an address in angle brackets, the empty
\* argument and the one-character argument included, is answered with one
\* 5xx reply, and the connection goes on reading commands.
C15_MalformedArgument ==
    \A c \in Conns :
        ( /\ CommandRead(c)
          /\ LastCallback(c) \in {"handle_command_mail", "handle_command_rcpt"}
          /\ before[c] \in entry_of[input[c].val].allowed_states
          /\ Malformed(LastCallback(c), LastRest(c)) )
        => /\ \/ replies[c] = <<"501 Email address invalid, must start with < and end with >">>
              \/ /\ Bracketed(LastRest(c))
                 /\ replies[c] = <<reply_553(parse(Inner(LastRest(c))).err)>>
           /\ pc[c] = "cmd"

\* C16: within one mail transaction at most max_recipients RCPT commands are
\* answered 250 OK; an RCPT beyond the limit (taken here with an argument
\* that is an address, so that nothing else is wrong with it) is answered
\* "452 Too many recipients" and handle_receiver_address is not called for
\* it.
C16_MaxRecipients ==
    \A c \in Conns :
        /\ recipients[c] <= config.max_recipients
        /\ ( /\ CommandRead(c)
             /\ LastCallback(c) = "handle_command_rcpt"
             /\ before[c] = "Rcpt"
             /\ ~Malformed(LastCallback(c), LastRest(c))
             /\ recipients[c] = config.max_recipients
             /\ replies[c] # <<"250 OK">> )
           => /\ replies[c] = <<"452 Too many recipients">>
              /\ calls[c] = <<>>

(***************************************************************************)
(* Properties of the event handler's refusals.                             *)
(***************************************************************************)

\* C17: when handle_domain returns Err(()) for the domain given in HELO or
\* EHLO, the connection is aborted: no further command of the connection is
\* processed.
C17_DomainVeto ==
    \A c \in Conns :
        ( /\ CommandRead(c)
          /\ calls[c] # <<>>
          /\ calls[c][1].hook = "handle_domain"
          /\ ~calls[c][1].ok )
        => pc[c] = "closed"

\* The hooks whose Err the server unwraps.
FatalHooks ==
    {"handle_connection", "handle_body_start", "handle_body_part", "handle_body_end"}

\* C18: when handle_connection, handle_body_start, handle_body_part or
\* handle_body_end returns Err, the connection ends at once: nothing is
\* written after the hook's answer (no 220 greeting after a refused
\* connection, no 250 OK after a refused body hook), the state is not reset,
\* and no further line is read or answered on the connection.
C18_FatalVeto ==
    /\ [](\A c \in Conns :
            ( /\ calls[c] # <<>>
              /\ calls[c][Len(calls[c])].hook \in FatalHooks
              /\ ~calls[c][Len(calls[c])].ok )
            => /\ pc[c] = "closed"
               /\ replies[c] = IF calls[c][1].hook = "handle_body_start"
                               THEN <<"354 Start mail input; end with <CRLF>.<CRLF>">>
                               ELSE <<>>
               /\ calls[c][1].hook # "handle_connection" => state[c] = "Rcpt")
    /\ [][\A c \in Conns :
            (pc[c] = "closed" /\ calls[c] # <<>>) => conn(c)' = conn(c)]_vars

\* handle_body_end refused the message "a": no 250 OK, the state is still
\* Rcpt, the connection is closed.
C18_Witness ==
    \E c \in Conns :
        /\ body[c] = <<<<"a">>, <<".">>>>
        /\ calls[c] = <<Call("handle_body_end", <<>>, FALSE)>>
        /\ replies[c] = <<>>
        /\ state[c] = "Rcpt"
        /\ pc[c] = "closed"

(***************************************************************************)
(* Properties of the construction of the server.                           *)
(***************************************************************************)

\* C19: once bind and listen have succeeded, the construction returns
\* Err(MaxMessageSizeTooLow), Err(MaxLineSizeTooLow) or
\* Err(MaxRecipientsTooLow) with the offending value exactly when that value
\* is below its floor and no value earlier in that order is; it returns a
\* server exactly when the three floors are met, it returns in every case,
\* and a connection is handled only when a server was returned.
C19_Construction ==
    LET cfg == server.config
        res == server.result.val
        low_m == cfg.max_message_size < MIN_ALLOWED_MESSAGE_SIZE
        low_l == cfg.max_line_size < MIN_ALLOWED_LINE_SIZE
        low_r == cfg.max_recipients < MIN_ALLOWED_RECIPIENTS
    IN  /\ (server.result.some /\ server.bind_ok /\ server.listen_ok)
           => /\ res = Err(MaxMessageSizeTooLow(cfg.max_message_size)) <=> low_m
              /\ res = Err(MaxLineSizeTooLow(cfg.max_line_size)) <=> (~low_m /\ low_l)
              /\ res = Err(MaxRecipientsTooLow(cfg.max_recipients))
                    <=> (~low_m /\ ~low_l /\ low_r)
              /\ res.ok <=> (~low_m /\ ~low_l /\ ~low_r)
              /\ res.ok => res.val.config = cfg
        /\ (server.result.some /\ res.ok)
           => (server.bind_ok /\ server.listen_ok /\ ~low_m /\ ~low_l /\ ~low_r)
        /\ Conns # {} => (server.result.some /\ res.ok)

\* The three floors are violated: the construction reported the message
\* size, the first in the order.
C19_Witness ==
    /\ server.result.some
    /\ server.bind_ok /\ server.listen_ok
    /\ server.config.max_message_size = MIN_ALLOWED_MESSAGE_SIZE - 1
    /\ server.config.max_line_size = MIN_ALLOWED_LINE_SIZE - 1
    /\ server.config.max_recipients = 0
    /\ server.result.val = Err(MaxMessageSizeTooLow(MIN_ALLOWED_MESSAGE_SIZE - 1))

(***************************************************************************)
(* Properties of connections served at once.                               *)
(***************************************************************************)

\* The step of connection c is the one of a connection that runs alone: its
\* new state, replies, hook calls and position follow from its own state and
\* the line it read, for some answer ev of its own event handler.
Alone(c) ==
    \/ /\ pc[c] = "new"
       /\ state'[c] = "Init"
       /\ \E ev \in BOOLEAN :
             /\ pc'[c] = IF ev THEN "cmd" ELSE "closed"
             /\ replies'[c] = IF ev THEN <<"220 " \o config.domain>> ELSE <<>>
             /\ calls'[c] = <<Call("handle_connection", "peer", ev)>>
    \/ /\ pc[c] = "cmd"
       /\ input'[c].ok
       /\ \E ev \in BOOLEAN :
             LET o == outcome_of[state[c], input'[c].val, ev]
             IN  << state'[c], replies'[c], calls'[c], pc'[c] >>
                    = << o.state, o.replies, o.calls, pc_after(o.res) >>
    \/ /\ pc[c] = "cmd"
       /\ ~input'[c].ok
       /\ LET o == handle_read_error(state[c], input'[c].err)
          IN  << state'[c], replies'[c], calls'[c], pc'[c] >>
                 = << o.state, o.replies, o.calls, pc_after(o.res) >>
    \/ /\ pc[c] = "body"
       /\ input'[c].ok
       /\ input'[c].val \in BodyLines
       /\ \E ev \in BOOLEAN :
             LET r == body_pass[state[c], size[c], input'[c].val, ev]
             IN  << state'[c], size'[c], replies'[c], calls'[c], pc'[c] >>
                    = << r.out.state, r.size, r.out.replies, r.out.calls,
                         pc_after(r.out.res) >>
    \/ /\ pc[c] = "body"
       /\ ~input'[c].ok
       /\ << state'[c], replies'[c], calls'[c], pc'[c] >>
             = << state[c], <<>>, <<>>, "closed" >>

\* C20: with two connections served at once, under any interleaving of
\* their lines, each connection has its own transaction state, Init at its
\* start, and its own event handler: every step is the step of one
\* connection, it is the step that connection would take alone, it leaves
\* the state, the replies, the hook calls and the position of the other
\* connection as they were (also when it is QUIT or a fatal error), and it
\* leaves the server, with the template of the event handler, as it was.
C20_Independent ==
    /\ [](\A c \in Conns : pc[c] = "new" => state[c] = "Init")
    /\ [][\E c \in Conns :
            /\ Alone(c)
            /\ \A d \in Conns \ {c} : conn(d)' = conn(d)
            /\ server' = server]_vars

\* Connection 1 has ended with QUIT before it said HELO; connection 2 is in
\* the middle of a transaction and goes on.
C20_Witness ==
    /\ Conns = {1, 2}
    /\ pc[1] = "closed"
    /\ input[1] = Ok(<<"Q", "U", "I", "T">>)
    /\ before[1] = "Init"
    /\ state[2] = "Rcpt"
    /\ recipients[2] = 1
    /\ pc[2] = "cmd"

(***************************************************************************)
(* Properties of Mailbox::parse.                                           *)
(***************************************************************************)

\* Mailbox::parse has returned.
Parsed == applied.f = "parse" /\ applied.res.some

\* A local part of an address: a dot-string or a quoted string of at most
\* MAX_MAILBOX_LOCAL_PART_LEN characters.
ValidLocal(l) ==
    /\ Len(l) \in 1..MAX_MAILBOX_LOCAL_PART_LEN
    /\ \/ get_dot_string_len(l) = Len(l)
       \/ get_quoted_string_len(l) = Len(l)

\* A domain of at most MAX_DOMAIN_LEN characters.
ValidDomain(d) ==
    /\ Len(d) \in 1..MAX_DOMAIN_LEN
    /\ get_domain_len(d) = Len(d)

\* The places of the text s where a valid local part ends at an '@' that a
\* valid domain follows up to the end of s.
Splits(s) ==
    {k \in 1..Len(s) : /\ s[k] = "@"
                       /\ ValidLocal(SubSeq(s, 1, k - 1))
                       /\ ValidDomain(SubSeq(s, k + 1, Len(s)))}

\* C21: for every valid address local@domain without source route, of at
\* most 254 characters, Mailbox::parse succeeds and returns the local part
\* and the domain of the input character for character, but for a local
\* part that is postmaster in any letter case, which becomes postmaster; the
\* letter case of every other local part is kept.
C21_RoundTrip ==
    Parsed =>
        \A k \in Splits(applied.arg) :
            LET local == SubSeq(applied.arg, 1, k - 1)
                domain == SubSeq(applied.arg, k + 1, Len(applied.arg))
            IN  Len(applied.arg) <= MAX_MAILBOX_LEN
                => applied.res.val =
                      Ok(Mailbox(IF into_ascii_lowercase(local) = postmaster
                                 THEN postmaster ELSE local,
                                 Domain(domain)))

\* C22: for every spelling of the local part postmaster in upper-case and
\* lower-case letters, Mailbox::parse succeeds with the local part exactly
\* "postmaster": all spellings at one domain give equal Mailbox values.
C22_Postmaster ==
    Parsed =>
        \A k \in Splits(applied.arg) :
            SubSeq(applied.arg, 1, k - 1) \in Spellings(postmaster)
            => applied.res.val =
                  Ok(Mailbox(postmaster, Domain(SubSeq(applied.arg, k + 1, Len(applied.arg)))))

\* PosTMAster@ok was parsed.
C22_Witness ==
    /\ Parsed
    /\ applied.arg = <<"P", "o", "s", "T", "M", "A", "s", "t", "e", "r", "@", "o", "k">>
    /\ applied.res.val.ok
    /\ applied.res.val.val.local_part = postmaster

\* The local part that Mailbox::parse finds in s: the dot-string or quoted
\* string after the source route, None if there is none.
LocalOf(s) ==
    LET route == get_source_route_len(s)
    IN  get_mailbox_local_part(SubSeq(s, route + 1, Len(s)))

TCom == <<"@", "t", ".", "c", "o", "m">>

\* C23: Mailbox::parse accepts a local part of exactly 64 characters (64 "a"
\* and @t.com), and answers LocalPartTooLong to every text whose local part
\* is recognised and longer than 64 characters (65 "a" and @t.com): the local
\* part of a Mailbox has at most 64 characters.
C23_LocalPartLen ==
    Parsed =>
        /\ applied.arg = from_char(64, "a") \o TCom => applied.res.val.ok
        /\ applied.arg = from_char(65, "a") \o TCom
              => applied.res.val = Err("LocalPartTooLong")
        /\ ( /\ LocalOf(applied.arg).some
             /\ Len(LocalOf(applied.arg).val) > 64 )
           => applied.res.val = Err("LocalPartTooLong")
        /\ applied.res.val.ok => Len(applied.res.val.val.local_part) <= 64

\* The address of 64 "a" and @t.com was parsed.
C23_Witness ==
    /\ Parsed
    /\ applied.arg = from_char(64, "a") \o TCom
    /\ applied.res.val.ok
    /\ applied.res.val.val.local_part = from_char(64, "a")

RustAt == <<"r", "u", "s", "t", "@">>

\* C24 (as stated): Mailbox::parse on "rust@" and 255 "a" fails with
\* DomainTooLong.
C24_Domain255_DomainTooLong ==
    (Parsed /\ applied.arg = RustAt \o from_char(255, "a"))
    => applied.res.val = Err("DomainTooLong")

\* C24 (amended): Mailbox::parse on "rust@" and 255 "a" fails with TooLong:
\* a domain of 255 characters is not too long, the address of 260 is.
C24_Domain255_TooLong ==
    (Parsed /\ applied.arg = RustAt \o from_char(255, "a"))
    => applied.res.val = Err("TooLong")

\* "rust@" and 255 "a" was parsed, and failed.
C24_Witness ==
    /\ Parsed
    /\ applied.arg = RustAt \o from_char(255, "a")
    /\ ~applied.res.val.ok

\* The text after the '@' that follows the local part of s, where
\* Mailbox::parse looks for the foreign part: None if the local part is not
\* recognised or too long, or no '@' follows it.
ForeignOf(s) ==
    LET route == get_source_route_len(s)
        local == LocalOf(s)
        at == route + Len(local.val)
    IN  IF /\ local.some
           /\ Len(local.val) <= MAX_MAILBOX_LOCAL_PART_LEN
           /\ at < Len(s)
           /\ s[at + 1] = "@"
        THEN Some(SubSeq(s, at + 2, Len(s)))
        ELSE None

\* C25: Mailbox::parse returns DomainTooLong exactly when the domain it
\* scanned is longer than 255 characters: "rust@" and 256 "a" gives
\* DomainTooLong, "rust@" and 255 "a" gives TooLong.
C25_DomainTooLong ==
    Parsed =>
        /\ applied.res.val = Err("DomainTooLong")
              <=> ( /\ ForeignOf(applied.arg).some
                    /\ get_domain_len(ForeignOf(applied.arg).val) > 255 )
        /\ applied.arg = RustAt \o from_char(256, "a")
              => applied.res.val = Err("DomainTooLong")
        /\ applied.arg = RustAt \o from_char(255, "a")
              => applied.res.val = Err("TooLong")

\* "rust@" and 256 "a" was parsed: DomainTooLong.
C25_Witness ==
    /\ Parsed
    /\ applied.arg = RustAt \o from_char(256, "a")
    /\ applied.res.val = Err("DomainTooLong")

\* C26: an address of exactly 254 characters that is valid otherwise ("rust@"
\* and 249 "a") is parsed, the same address with one more character fails
\* with TooLong, and no text of more than 254 characters is parsed.
C26_TotalLen ==
    Parsed =>
        /\ applied.arg = RustAt \o from_char(249, "a")
              => applied.res.val =
                    Ok(Mailbox(<<"r", "u", "s", "t">>, Domain(from_char(249, "a"))))
        /\ applied.arg = RustAt \o from_char(250, "a")
              => applied.res.val = Err("TooLong")
        /\ applied.res.val.ok => Len(applied.arg) <= 254

\* "rust@" and 249 "a", 254 characters, was parsed.
C26_Witness ==
    /\ Parsed
    /\ applied.arg = RustAt \o from_char(249, "a")
    /\ Len(applied.arg) = 254
    /\ applied.res.val.ok

\* The foreign part that Mailbox::parse recognises at the start of the text
\* f: the length of the domain, or else of the address literal, 0 if
\* neither.
ForeignLen(f) ==
    IF get_domain_len(f) > 0 THEN get_domain_len(f)
    ELSE IF get_mailbox_ip(f).some THEN Len(get_mailbox_ip(f).val.ip)
    ELSE 0

\* C27: Mailbox::parse returns TooLong only when no more specific error
\* applies: exactly when the text is longer than 254 characters, its local
\* part is recognised and at most 64 long, an '@' follows it, a foreign part
\* is recognised with a domain of at most 255, and it ends the text. A text
\* of more than 254 characters with a local part or a domain that is too
\* long, without '@', or with characters left over gives LocalPartTooLong,
\* DomainTooLong, AtNotFound or LocalPartUnrecognized, and
\* ForeignPartUnrecognized.
C27_TooLongLast ==
    Parsed =>
        LET s == applied.arg
            res == applied.res.val
            local == LocalOf(s)
            after == get_source_route_len(s) + Len(local.val)
            f == ForeignOf(s)
            len == ForeignLen(f.val)
        IN  /\ res = Err("TooLong")
                  <=> ( /\ Len(s) > 254
                        /\ f.some
                        /\ len > 0
                        /\ get_domain_len(f.val) <= 255
                        /\ len = Len(f.val) )
            /\ Len(s) > 254
                  => /\ ~local.some => res = Err("LocalPartUnrecognized")
                     /\ (local.some /\ Len(local.val) > 64)
                           => res = Err("LocalPartTooLong")
                     /\ (local.some /\ Len(local.val) <= 64 /\ after >= Len(s))
                           => res = Err("AtNotFound")
                     /\ (local.some /\ Len(local.val) <= 64 /\ after < Len(s) /\ ~f.some)
                           => res = Err("LocalPartUnrecognized")
                     /\ (f.some /\ get_domain_len(f.val) > 255)
                           => res = Err("DomainTooLong")
                     /\ (f.some /\ get_domain_len(f.val) <= 255 /\ len # Len(f.val))
                           => res = Err("ForeignPartUnrecognized")

\* A text of 322 characters whose local part and domain are both too long:
\* LocalPartTooLong was returned.
C27_Witness ==
    /\ Parsed
    /\ applied.arg = from_char(65, "a") \o <<"@">> \o from_char(256, "a")
    /\ applied.res.val = Err("LocalPartTooLong")

(***************************************************************************)
(* Properties of the scanners get_domain_len and get_dot_string_len.       *)
(***************************************************************************)

\* A scanner was applied and returned the length of its match.
Measured(f) == applied.f = f /\ applied.res.some

\* The prefix of that length.
Matched == SubSeq(applied.arg, 1, applied.res.val)

\* C28: for every string s, get_domain_len(s) is at most the length of s,
\* and scanning the matched prefix again matches all of it:
\* get_domain_len(prefix(s, get_domain_len(s))) = get_domain_len(s).
C28_DomainLen ==
    Measured("get_domain_len")
    => /\ applied.res.val <= Len(applied.arg)
       /\ get_domain_len(Matched) = applied.res.val

\* A domain followed by a dash and a dot: the match is a proper prefix.
C28_Witness ==
    /\ Measured("get_domain_len")
    /\ applied.arg = <<"a", ".", "B", "-", ".">>
    /\ applied.res.val = 3

\* C29 as stated: the prefix matched by get_dot_string_len and the prefix
\* matched by get_domain_len never end with "." or "-".
C29_NoTrailingDotOrDash ==
    (Measured("get_domain_len") \/ Measured("get_dot_string_len"))
    => (applied.res.val > 0 => applied.arg[applied.res.val] \notin {".", "-"})

\* C29, amended: the prefix matched by get_domain_len never ends with "."
\* or "-", and the prefix matched by get_dot_string_len never ends with ".";
\* the domain length of "a.b." equals that of "a.b", which is 3. (A dash is
\* atext, so a dot-string may end with one.)
C29_NoTrailing ==
    /\ Measured("get_domain_len")
       => /\ applied.res.val > 0 => applied.arg[applied.res.val] \notin {".", "-"}
          /\ applied.arg \in {<<"a", ".", "b", ".">>, <<"a", ".", "b">>}
             => applied.res.val = 3
    /\ Measured("get_dot_string_len")
       => (applied.res.val > 0 => applied.arg[applied.res.val] # ".")

\* The domain scanner was applied to "a.b." and matched its first three
\* characters.
C29_Witness ==
    /\ Measured("get_domain_len")
    /\ applied.arg = <<"a", ".", "b", ".">>
    /\ applied.res.val = 3

(***************************************************************************)
(* Properties of the commands that are answered without being served.      *)
(***************************************************************************)

\* C30: a line that starts with "VRFY " is answered "252 Cannot VRFY user"
\* and one that starts with "EXPN " is answered "252 Cannot EXPN mailing
\* list", in every state and whatever follows the command word; the state
\* stays what it was, no method of the event handler is called, and the
\* connection goes on reading commands.
C30_VrfyExpn ==
    \A c \in Conns :
        /\ ( /\ CommandRead(c)
             /\ PrefixOf(<<"V", "R", "F", "Y", " ">>, input[c].val) )
           => /\ replies[c] = <<"252 Cannot VRFY user">>
              /\ state[c] = before[c]
              /\ calls[c] = <<>>
              /\ pc[c] = "cmd"
        /\ ( /\ CommandRead(c)
             /\ PrefixOf(<<"E", "X", "P", "N", " ">>, input[c].val) )
           => /\ replies[c] = <<"252 Cannot EXPN mailing list">>
              /\ state[c] = before[c]
              /\ calls[c] = <<>>
              /\ pc[c] = "cmd"

\* VRFY without an argument was read after RCPT, within a transaction, and
\* answered; the state is still Rcpt.
C30_Witness ==
    \E c \in Conns :
        /\ CommandRead(c)
        /\ input[c].val = <<"V", "R", "F", "Y", " ">>
        /\ before[c] = "Rcpt"
        /\ state[c] = "Rcpt"
        /\ replies[c] = <<"252 Cannot VRFY user">>

\* The text after the command word is empty or starts with a space.
EmptyOrSpaced(rest) == Len(rest) = 0 \/ rest[1] = " "

\* C31: in every state, HELP followed by nothing or by a space is answered
\* "502 Command not implemented" and HELP followed by anything else "500
\* Command unrecognized"; NOOP followed by nothing or by a space is answered
\* "250 OK" and NOOP followed by anything else "500 Command unrecognized";
\* neither changes the state.
C31_HelpNoop ==
    \A c \in Conns :
        /\ ( /\ CommandRead(c)
             /\ LastCallback(c) = "handle_command_help" )
           => /\ replies[c] = IF EmptyOrSpaced(LastRest(c))
                              THEN <<"502 Command not implemented">>
                              ELSE <<"500 Command unrecognized">>
              /\ state[c] = before[c]
        /\ ( /\ CommandRead(c)
             /\ LastCallback(c) = "handle_command_noop" )
           => /\ replies[c] = IF EmptyOrSpaced(LastRest(c))
                              THEN <<"250 OK">>
                              ELSE <<"500 Command unrecognized">>
              /\ state[c] = before[c]

\* "HELP x" was read after MAIL and answered 502; the state is still Mail.
C31_Witness ==
    \E c \in Conns :
        /\ CommandRead(c)
        /\ input[c].val = <<"H", "E", "L", "P", " ", "x">>
        /\ before[c] = "Mail"
        /\ state[c] = "Mail"
        /\ replies[c] = <<"502 Command not implemented">>

(***************************************************************************)
(* Properties of whole connections.                                        *)
(***************************************************************************)

\* The states in which a connection rests between two commands.
RestingStates == {"Init", "Helo", "Mail", "Rcpt"}

\* C32: wherever the dispatch loop reads a command line, the transaction
\* state is one of Init, Helo, Mail and Rcpt, never Data: no command is
\* matched against the table in the Data state, and so the Data members of
\* the allowed states of RSET, VRFY, EXPN, HELP, NOOP and QUIT are never used.
C32_NoDataState ==
    \A c \in Conns :
        /\ pc[c] = "cmd" => state[c] \in RestingStates
        /\ CommandRead(c) => before[c] \in RestingStates

\* The body loop was left with the 552 reply: the dispatch loop is about to
\* read a command line, and the state is Rcpt.
C32_Witness ==
    \E c \in Conns :
        /\ pc[c] = "cmd"
        /\ body[c] # <<>>
        /\ replies[c] = <<"552 Too much mail data, max 3 bytes">>
        /\ state[c] = "Rcpt"

\* The hook that the connection's last step called, and whether that hook
\* returned Ok.
LastHook(c) == IF calls[c] = <<>> THEN "none" ELSE calls[c][1].hook

LastHookOk(c) == calls[c] # <<>> /\ calls[c][1].ok

\* The same of the step being taken.
NextHook(c) == IF calls'[c] = <<>> THEN "none" ELSE calls'[c][1].hook

NextHookOk(c) == calls'[c] # <<>> /\ calls'[c][1].ok

\* A step of connection c moves the state forward only on the Ok of the
\* hook of that move: Init to Helo on handle_domain, Helo to Mail on
\* handle_sender_address, Mail or Rcpt to Rcpt on handle_receiver_address;
\* any other change of the state is a return to Init.
ForwardOnOk(c) ==
    state'[c] # state[c]
    => \/ state'[c] = "Init"
       \/ /\ state[c] = "Init" /\ state'[c] = "Helo"
          /\ NextHook(c) = "handle_domain" /\ NextHookOk(c)
       \/ /\ state[c] = "Helo" /\ state'[c] = "Mail"
          /\ NextHook(c) = "handle_sender_address" /\ NextHookOk(c)
       \/ /\ state[c] = "Mail" /\ state'[c] = "Rcpt"
          /\ NextHook(c) = "handle_receiver_address" /\ NextHookOk(c)

\* A step of connection c calls handle_body_start only where a command is
\* read, in the state Rcpt; it enters the body loop only on the Ok of
\* handle_body_start; it calls handle_body_part and handle_body_end only
\* inside the body loop, and leaves the loop when it calls handle_body_end.
BodyHooksInOrder(c) ==
    conn(c)' # conn(c)
    => /\ NextHook(c) = "handle_body_start"
          => pc[c] = "cmd" /\ state[c] = "Rcpt"
       /\ (pc[c] # "body" /\ pc'[c] = "body")
          => NextHook(c) = "handle_body_start" /\ NextHookOk(c)
       /\ NextHook(c) \in {"handle_body_part", "handle_body_end"}
          => pc[c] = "body"
       /\ NextHook(c) = "handle_body_end" => pc'[c] # "body"

\* C33: handle_body_start is called only after handle_domain, then
\* handle_sender_address, then at least one handle_receiver_address have
\* returned Ok in that order since the last return to Init; the 354 reply
\* is written before handle_body_start is called, so it is there whatever
\* the hook answers; handle_body_part and handle_body_end are called only
\* after the handle_body_start of the same DATA command, and handle_body_end
\* at most once for each handle_body_start.
C33_HookOrder ==
    /\ [](\A c \in Conns :
            LastHook(c) = "handle_body_start"
            => /\ before[c] = "Rcpt"
               /\ progress[c] = <<"handle_command_helo", "handle_command_mail",
                                  "handle_command_rcpt">>
               /\ replies[c] = <<"354 Start mail input; end with <CRLF>.<CRLF>">>)
    /\ [][\A c \in Conns : ForwardOnOk(c) /\ BodyHooksInOrder(c)]_vars

\* A body of one line was completed: handle_body_end was called after one
\* handle_body_part, in the body loop that handle_body_start opened.
C33_Witness ==
    \E c \in Conns :
        /\ LastHook(c) = "handle_body_end"
        /\ LastHookOk(c)
        /\ Len(parts[c]) = 1
        /\ before[c] = "Rcpt"

\* The connection's last read was a line that starts with MAIL FROM:.
MailRead(c) ==
    /\ CommandRead(c)
    /\ PrefixOf(<<"M", "A", "I", "L", " ", "F", "R", "O", "M", ":">>, input[c].val)

\* The connection's last read was a HELO or EHLO line that was accepted.
HeloAccepted(c) ==
    /\ CommandRead(c)
    /\ LastCallback(c) = "handle_command_helo"
    /\ replies[c] = <<"250 OK">>

\* The connection's last read was a RSET line without argument.
RsetDone(c) ==
    /\ CommandRead(c)
    /\ LastCallback(c) = "handle_command_rset"
    /\ LastRest(c) = <<>>

\* C34: after a completed DATA command and after a RSET without argument the
\* state is Init; a MAIL FROM: line read in Init is answered "503 Bad
\* sequence of commands" and leaves the state Init; the state leaves Init
\* only when a HELO or EHLO is accepted, and becomes Mail only from Helo: no
\* mail transaction starts without a fresh HELO or EHLO.
C34_FreshHelo ==
    /\ [](\A c \in Conns :
            /\ DataCompleted(c) => state[c] = "Init"
            /\ RsetDone(c) => state[c] = "Init"
            /\ (MailRead(c) /\ before[c] = "Init")
               => /\ replies[c] = <<"503 Bad sequence of commands">>
                  /\ calls[c] = <<>>
                  /\ state[c] = "Init")
    /\ [][\A c \in Conns :
            /\ ( /\ DataCompleted(c) \/ RsetDone(c)
                 /\ conn(c)' # conn(c)
                 /\ MailRead(c)' )
               => /\ replies'[c] = <<"503 Bad sequence of commands">>
                  /\ state'[c] = "Init"
            /\ (state[c] = "Init" /\ state'[c] # "Init")
               => HeloAccepted(c)' /\ state'[c] = "Helo"
            /\ (state[c] # "Mail" /\ state'[c] = "Mail")
               => state[c] = "Helo"]_vars

\* MAIL FROM: was read in Init and answered 503.
C34_Witness ==
    \E c \in Conns :
        /\ MailRead(c)
        /\ input[c].val = <<"M", "A", "I", "L", " ", "F", "R", "O", "M", ":",
                            "<", "A", "@", "b", ">">>
        /\ before[c] = "Init"
        /\ replies[c] = <<"503 Bad sequence of commands">>

\* The connection's last step was the pass of the body loop that answered
\* 552.
Refused(c) ==
    /\ body[c] # <<>>
    /\ replies[c] = <<"552 Too much mail data, max "
                        \o ToString(config.max_message_size) \o " bytes">>

\* The step being taken reads a line where a command is expected, in the
\* state Rcpt, and handles it as handle_line does.
ReadAsCommand(c) ==
    /\ body'[c] = <<>>
    /\ before'[c] = "Rcpt"
    /\ input'[c].ok
       => /\ input'[c].val \in Lines
          /\ \E ev \in BOOLEAN :
                /\ replies'[c] = outcome_of["Rcpt", input'[c].val, ev].replies
                /\ calls'[c] = outcome_of["Rcpt", input'[c].val, ev].calls
                /\ state'[c] = outcome_of["Rcpt", input'[c].val, ev].state
    /\ (input'[c].ok /\ input'[c].val \in BodyLines)
       => /\ replies'[c] = <<"500 Command unrecognized">>
          /\ calls'[c] = <<>>
          /\ state'[c] = "Rcpt"

\* C35: after a 552 reply the DATA command has returned: the line that took
\* the total over the limit was passed to handle_body_part before the reply,
\* the state is still Rcpt, and the next line of the connection, be it a body
\* line or the lone dot that the client still sends, is read by the dispatch
\* loop and handled as a command line in the state Rcpt.
C35_AfterTooMuchData ==
    /\ [](\A c \in Conns :
            Refused(c)
            => /\ calls[c] = <<Call("handle_body_part", input[c].val, TRUE)>>
               /\ parts[c] = body[c]
               /\ body[c][Len(body[c])] = input[c].val
               /\ state[c] = "Rcpt"
               /\ pc[c] = "cmd")
    /\ [][\A c \in Conns :
            (Refused(c) /\ conn(c)' # conn(c)) => ReadAsCommand(c)]_vars

\* The second line of a body took the total over the limit: both lines went
\* to handle_body_part, and the reply was 552.
C35_Witness ==
    \E c \in Conns :
        /\ Refused(c)
        /\ Len(parts[c]) = 2
        /\ LastHook(c) = "handle_body_part"
        /\ pc[c] = "cmd"

(***************************************************************************)
(* Properties of get_source_route_len and of the source route in           *)
(* Mailbox::parse.                                                         *)
(***************************************************************************)

\* t is an at-domain: "@" and a domain.
IsAtDomain(t) ==
    /\ Len(t) >= 2
    /\ t[1] = "@"
    /\ get_domain_len(Tail(t)) = Len(t) - 1

\* t is one at-domain or several, with one comma between two of them.
RECURSIVE IsAtDomainList(_)
IsAtDomainList(t) ==
    \E k \in 1..Len(t) :
        /\ IsAtDomain(SubSeq(t, 1, k))
        /\ \/ k = Len(t)
           \/ /\ t[k + 1] = ","
              /\ IsAtDomainList(SubSeq(t, k + 2, Len(t)))

\* p is a source route: no at-domain or a list of them, then ":".
IsSourceRoute(p) ==
    /\ Len(p) >= 1
    /\ p[Len(p)] = ":"
    /\ Len(p) = 1 \/ IsAtDomainList(SubSeq(p, 1, Len(p) - 1))

\* C36: get_source_route_len returns a length n other than 0 only when the
\* first n characters are at-domains (none, one or several) with one comma
\* between two of them and then ":", without a comma right before the ":";
\* it returns 0 when that ":" is missing, as for "@rust,", "@rust" and
\* "@rust,@troll".
C36_SourceRoute ==
    Measured("get_source_route_len")
    => /\ applied.res.val > 0 => IsSourceRoute(Matched)
       /\ (\A n \in 1..Len(applied.arg) : ~IsSourceRoute(SubSeq(applied.arg, 1, n)))
          => applied.res.val = 0

\* What follows the source route of the text that was parsed.
AfterRoute == slice_from(applied.arg, get_source_route_len(applied.arg))

\* C37: for a source route r that get_source_route_len accepts and an
\* address a that has no source route, Mailbox::parse(r \o a) returns what
\* Mailbox::parse(a) returns, the same Mailbox or the same error: the route
\* counts neither in the parts nor in the length checks.
C37_RouteTransparent ==
    ( /\ Parsed
      /\ get_source_route_len(applied.arg) > 0
      /\ get_source_route_len(AfterRoute) = 0 )
    => applied.res.val = parse(AfterRoute)

(***************************************************************************)
(* Properties of the MAIL command of server/commands/mail.rs.              *)
(***************************************************************************)

\* A MAIL FROM: line was given to the command; its argument, the State it
\* ran in, and what it did.
MailRun == applied.f = "get"

MailArg == applied.arg.line

MailState == applied.arg.state

MailDone == applied.res.val

\* The argument has its two brackets.
InBrackets(line) ==
    /\ Len(line) >= 2
    /\ line[1] = "<"
    /\ line[Len(line)] = ">"

\* The middleware was entered.
Reached(name) == \E i \in 1..Len(MailDone.reached) : MailDone.reached[i] = name

\* C38: in the MAIL command of mail.rs, an argument of less than 2
\* characters, or one that does not both start with "<" and end with ">",
\* is answered "501 Invalid argument, format: '<email@example.com>'" and is
\* passed neither to handle_no_sender, nor to handle_sender, nor to
\* Mailbox::parse; only an argument in brackets reaches them; and every MAIL
\* line gets exactly one reply.
C38_MailFormat ==
    MailRun
    => /\ (Reached("check_mailbox_format") /\ ~InBrackets(MailArg))
          => /\ MailDone.replies
                   = <<"501 Invalid argument, format: '<email@example.com>'">>
             /\ ~Reached("handle_no_sender")
             /\ ~Reached("handle_sender")
             /\ MailDone.parsed = <<>>
       /\ (Reached("handle_no_sender") \/ Reached("handle_sender") \/ MailDone.parsed # <<>>)
          => InBrackets(MailArg)
       /\ Len(MailDone.replies) = 1

\* The value of "has_seen_ehlo" that check_state finds in a State.
SeenEhlo(st) ==
    /\ "has_seen_ehlo" \in DOMAIN st.bool_state
    /\ st.bool_state["has_seen_ehlo"]

\* C39: in the MAIL command of mail.rs the line goes beyond check_state only
\* if "has_seen_ehlo" is true in the State of the connection; when the key is
\* not set, as in a new State and after State::reset, which empties the four
\* maps, or when it is false, the reply is "503 Bad sequence of commands"
\* and handle_sender_address is not called.
C39_CheckState ==
    /\ MailRun
       => /\ Reached("check_mailbox_format") => SeenEhlo(MailState)
          /\ ~SeenEhlo(MailState)
             => /\ MailDone.replies = <<"503 Bad sequence of commands">>
                /\ MailDone.reached = <<"check_state">>
                /\ MailDone.calls = <<>>
    /\ ~SeenEhlo(State_new)
    /\ State_reset(container) = State_new

\* A MAIL FROM: line with a mailbox in brackets was read in a State where
\* "has_seen_ehlo" is false: 503, and only check_state was entered.
C39_Witness ==
    /\ MailRun
    /\ MailArg = <<"<", "a", "@", "b", ">">>
    /\ "has_seen_ehlo" \in DOMAIN MailState.bool_state
    /\ ~MailState.bool_state["has_seen_ehlo"]
    /\ MailDone.replies = <<"503 Bad sequence of commands">>

(***************************************************************************)
(* Properties of simplify_quoted_string.                                   *)
(***************************************************************************)

\* t is a dot-string that is not empty; t is a quoted-string.
IsDotString(t) == Len(t) > 0 /\ get_dot_string_len(t) = Len(t)

IsQuotedString(t) == Len(t) >= 2 /\ get_quoted_string_len(t) = Len(t)

\* The text that a dot-string or a quoted-string denotes.
Denoted(t) == IF IsQuotedString(t) THEN unescape_quoted_string(t) ELSE t

\* C40: for every quoted-string s, the empty one "" included,
\* simplify_quoted_string(s) is a dot-string that is not empty or a
\* quoted-string, and it denotes the text that s denotes.
C40_Simplify ==
    Measured("simplify_quoted_string")
    => /\ IsDotString(applied.res.val) \/ IsQuotedString(applied.res.val)
       /\ Denoted(applied.res.val) = unescape_quoted_string(applied.arg)

====
